---- MODULE Spec2Model ----
(***************************************************************************)
(* Model of the SQL safety gate of diamond_chat: SQLValidator.validate and *)
(* SQLValidator.enforce_limit (src/src/llm/validator.py), the extractor    *)
(* SQLAgent._extract_sql and SQLAgent.validate_and_fix_sql                 *)
(* (src/src/llm/sql_agent.py) and QueryService.process_query               *)
(* (src/src/services/query_service.py).                                    *)
(*                                                                         *)
(* A Python str is modelled as a sequence of one-character strings, and    *)
(* every regular expression of the source is modelled by an operator that  *)
(* scans that sequence the way the regular expression does.                *)
(***************************************************************************)
EXTENDS Integers, Sequences, FiniteSets, TLC

\* ------------------------------------------------------------------------
\* Characters
\* ------------------------------------------------------------------------

UpperLetters ==
    <<"A","B","C","D","E","F","G","H","I","J","K","L","M",
      "N","O","P","Q","R","S","T","U","V","W","X","Y","Z">>

LowerLetters ==
    <<"a","b","c","d","e","f","g","h","i","j","k","l","m",
      "n","o","p","q","r","s","t","u","v","w","x","y","z">>

Digits == <<"0","1","2","3","4","5","6","7","8","9">>

Range(f) == { f[i] : i \in DOMAIN f }

UpperSet == Range(UpperLetters)
LowerSet == Range(LowerLetters)
DigitSet == Range(Digits)

\* \w of Python's re: letters, digits and the underscore.
WordChars == UpperSet \cup LowerSet \cup DigitSet \cup {"_"}

\* \s of Python's re and the characters str.strip() removes.
Whitespace == {" ", "\n", "\t"}

IndexIn(c, seq) == CHOOSE i \in DOMAIN seq : seq[i] = c

\* str.upper() and str.lower() on one character: a letter goes to the letter at
\* the same place of the other alphabet, any other character stays.
ToUpper == [c \in LowerSet |-> UpperLetters[IndexIn(c, LowerLetters)]]
ToLower == [c \in UpperSet |-> LowerLetters[IndexIn(c, UpperLetters)]]
UpperChar(c) == IF c \in LowerSet THEN ToUpper[c] ELSE c
LowerChar(c) == IF c \in UpperSet THEN ToLower[c] ELSE c

\* ------------------------------------------------------------------------
\* Strings (sequences of characters)
\* ------------------------------------------------------------------------

Upper(s) == [i \in DOMAIN s |-> UpperChar(s[i])]
Lower(s) == [i \in DOMAIN s |-> LowerChar(s[i])]

\* s[i:] of Python, 1-based: the suffix that starts at position i.
From(s, i) == SubSeq(s, i, Len(s))

\* s.startswith(p) at position i of s.
MatchAt(s, i, p) ==
    /\ i >= 1
    /\ i + Len(p) - 1 <= Len(s)
    /\ \A k \in 1..Len(p) : s[i + k - 1] = p[k]

StartsWith(s, p) == MatchAt(s, 1, p)
EndsWith(s, p) == Len(p) <= Len(s) /\ MatchAt(s, Len(s) - Len(p) + 1, p)

\* p in s
Contains(s, p) ==
    \/ p = <<>>
    \/ \E i \in 1..(Len(s) - Len(p) + 1) : s[i] = p[1] /\ MatchAt(s, i, p)

HasChar(s, c) == \E i \in DOMAIN s : s[i] = c

\* s.find(p) of Python, 1-based: where p first occurs in s, 0 when it does not.
Find(s, p) ==
    LET hits == { i \in 1..(Len(s) - Len(p) + 1) : s[i] = p[1] /\ MatchAt(s, i, p) }
    IN  IF p = <<>> THEN 1
        ELSE IF hits = {} THEN 0
        ELSE CHOOSE i \in hits : \A j \in hits : i <= j

\* s.lstrip(chars), s.rstrip(chars): every leading / trailing character of cs goes.
LStripChars(s, cs) ==
    IF \A i \in DOMAIN s : s[i] \in cs THEN <<>>
    ELSE From(s, CHOOSE i \in DOMAIN s : s[i] \notin cs /\ \A j \in 1..(i-1) : s[j] \in cs)

RStripChars(s, cs) ==
    IF \A i \in DOMAIN s : s[i] \in cs THEN <<>>
    ELSE SubSeq(s, 1, CHOOSE i \in DOMAIN s : s[i] \notin cs /\ \A j \in (i+1)..Len(s) : s[j] \in cs)

\* s.strip(), s.rstrip()
Strip(s) == LStripChars(RStripChars(s, Whitespace), Whitespace)
RStrip(s) == RStripChars(s, Whitespace)

\* ------------------------------------------------------------------------
\* Configuration (src/src/core/config.py)
\* ------------------------------------------------------------------------

\* settings.TABLE_NAME
TABLE_NAME == <<"d","e","v","_","d","i","a","m","o","n","d","2">>

\* settings.DEFAULT_QUERY_LIMIT, settings.MAX_QUERY_LIMIT
DEFAULT_QUERY_LIMIT == 200
MAX_QUERY_LIMIT == 1000

\* Python's None
None == "None"

\* ------------------------------------------------------------------------
\* SQLValidator (src/src/llm/validator.py)
\* ------------------------------------------------------------------------

DANGEROUS_KEYWORDS ==
    << <<"I","N","S","E","R","T">>, <<"U","P","D","A","T","E">>,
       <<"D","E","L","E","T","E">>, <<"D","R","O","P">>,
       <<"A","L","T","E","R">>, <<"C","R","E","A","T","E">>,
       <<"T","R","U","N","C","A","T","E">>, <<"G","R","A","N","T">>,
       <<"R","E","V","O","K","E">>, <<"E","X","E","C">>,
       <<"E","X","E","C","U","T","E">>, <<"M","E","R","G","E">>,
       <<"R","E","P","L","A","C","E">>, <<"C","A","L","L">>,
       <<"L","O","C","K">>, <<"U","N","L","O","C","K">> >>

SELECT == <<"S","E","L","E","C","T">>
LIMIT == <<"L","I","M","I","T">>

\* The suffix of s from its first "\n" on (nothing when it has none): what a match
\* of `.*$` under re.MULTILINE leaves of the text.
FromNewline(s) == IF HasChar(s, "\n") THEN From(s, Find(s, <<"\n">>)) ELSE <<>>

\* re.sub(r'--.*$', '', sql, flags=re.MULTILINE): each match starts at the next
\* "--" and runs to the end of its line.
RECURSIVE StripLineComments(_)
StripLineComments(s) ==
    LET i == Find(s, <<"-","-">>)
    IN  IF i = 0 THEN s
        ELSE SubSeq(s, 1, i - 1) \o StripLineComments(FromNewline(From(s, i)))

\* re.sub(r'/\*.*?\*/', '', sql_clean, flags=re.DOTALL): a comment runs from a
\* "/*" to the first "*/" that starts at least two characters later; a "/*"
\* with no such "*/" stays.
RECURSIVE StripBlockComments(_)
StripBlockComments(s) ==
    LET i == Find(s, <<"/","*">>)
        j == Find(From(s, i + 2), <<"*","/">>)
    IN  IF i = 0 \/ j = 0 THEN s
        ELSE SubSeq(s, 1, i - 1) \o StripBlockComments(From(s, i + j + 3))

\* sql_clean of validate (lines 33-34): line comments go first, block comments second.
StripComments(sql) == StripBlockComments(StripLineComments(sql))

\* \b of Python's re at the gap before position i of s (1 <= i <= Len(s)+1).
WordBoundary(s, i) ==
    LET before == i > 1 /\ s[i-1] \in WordChars
        after  == i <= Len(s) /\ s[i] \in WordChars
    IN  before # after

\* The search as re.match would do it: at the start of the text only.
SearchKeyword_AtStartOnly(keyword, sql_upper) ==
    /\ MatchAt(sql_upper, 1, keyword)
    /\ WordBoundary(sql_upper, 1 + Len(keyword))

\* The search without the \b: the keyword anywhere, also inside a longer word.
SearchKeyword_Substring(keyword, sql_upper) == Contains(sql_upper, keyword)

\* re.search(rf'\b{keyword}\b', sql_upper)
SearchKeyword(keyword, sql_upper) ==
    \E i \in 1..(Len(sql_upper) - Len(keyword) + 1) :
        /\ sql_upper[i] = keyword[1]
        /\ MatchAt(sql_upper, i, keyword)
        /\ WordBoundary(sql_upper, i)
        /\ WordBoundary(sql_upper, i + Len(keyword))

\* sqlparse.parse(sql_clean)[0] raises IndexError when parse returns no statement.
\* sqlparse returns none for the empty text; for a text of whitespace only it
\* returns none or one depending on the installed release, which the repository
\* does not pin: both outcomes are possible.
ParseOutcomes(sql_clean) ==
    IF sql_clean = <<>> THEN {"raises"}
    ELSE IF \A i \in DOMAIN sql_clean : sql_clean[i] \in Whitespace THEN {"raises", "parsed"}
    ELSE {"parsed"}

\* str(e) of the IndexError, kept as one piece of text
IndexErrorText == <<"tuple index out of range">>

\* The pair (is_valid, error_message) validate returns. The message is kept as
\* the check it comes from (kind) and the text interpolated into it (detail);
\* Python's None is the kind "None".
Accepted == [valid |-> TRUE, error |-> [kind |-> None, detail |-> <<>>]]
\* A rejection as `return False, None` would give it: without a reason.
Rejected_WithoutReason(kind, detail) == [valid |-> FALSE, error |-> [kind |-> None, detail |-> <<>>]]
Rejected(kind, detail) == [valid |-> FALSE, error |-> [kind |-> kind, detail |-> detail]]

\* The loop as it would be if it reported the keyword that stands first in the text.
FirstKeyword_InTextOrder(sql_upper) ==
    LET found == { k \in DOMAIN DANGEROUS_KEYWORDS : SearchKeyword(DANGEROUS_KEYWORDS[k], sql_upper) }
        at(k) == CHOOSE i \in DOMAIN sql_upper :
                     /\ MatchAt(sql_upper, i, DANGEROUS_KEYWORDS[k])
                     /\ WordBoundary(sql_upper, i)
                     /\ WordBoundary(sql_upper, i + Len(DANGEROUS_KEYWORDS[k]))
    IN  IF found = {} THEN 0
        ELSE CHOOSE k \in found : \A j \in found : at(k) < at(j) \/ (at(k) = at(j) /\ k <= j)

\* The dangerous keyword the loop of lines 48-50 returns on: the first of the list
\* that is found (0 when none is).
FirstKeyword(sql_upper) ==
    LET found == { k \in DOMAIN DANGEROUS_KEYWORDS : SearchKeyword(DANGEROUS_KEYWORDS[k], sql_upper) }
    IN  IF found = {} THEN 0
        ELSE CHOOSE k \in found : \A j \in found : k <= j

\* The checks of validate, each as the condition of its `return False`; before
\* each, the check as a slip in its line would leave it.
IsEmptyQuery_NoStrip(sql) == sql = <<>>
IsEmptyQuery(sql) == sql = <<>> \/ Strip(sql) = <<>>
HasMultipleStatements_OneSemicolonStripped(sql_clean) ==
    HasChar(IF EndsWith(sql_clean, <<";">>) THEN SubSeq(sql_clean, 1, Len(sql_clean) - 1) ELSE sql_clean, ";")
IsNotSelect_Unchecked(sql_upper) == FALSE
LacksTable_Inverted(allowed_table, sql_clean) == Contains(Lower(sql_clean), Lower(allowed_table))
HasMultipleStatements(sql_clean) == HasChar(RStripChars(sql_clean, {";"}), ";")
IsNotSelect(sql_upper) == ~StartsWith(Strip(sql_upper), SELECT)
LacksTable(allowed_table, sql_clean) == ~Contains(Lower(sql_clean), Lower(allowed_table))

\* SQLValidator.validate(sql) of a validator built with allowed_table, where
\* sqlparse.parse behaves as `parse` ("raises" or "parsed").
validate(allowed_table, sql, parse) ==
    IF IsEmptyQuery(sql) THEN Rejected("EmptyQuery", <<>>)
    ELSE LET sql_clean == StripComments(sql)
             sql_upper == Upper(sql_clean)
             k == FirstKeyword(sql_upper)
         IN  IF HasMultipleStatements(sql_clean) THEN Rejected("MultipleStatements", <<>>)
             ELSE IF parse = "raises" THEN Rejected("ParseError", IndexErrorText)
             ELSE IF k # 0 THEN Rejected("ForbiddenKeyword", DANGEROUS_KEYWORDS[k])
             ELSE IF IsNotSelect(sql_upper) THEN Rejected("NotASelect", <<>>)
             ELSE IF LacksTable(allowed_table, sql_clean) THEN Rejected("TableNotAllowed", allowed_table)
             ELSE Accepted

\* str(n) of Python for an integer n
RECURSIVE NatToStr(_)
NatToStr(n) == IF n < 10 THEN <<Digits[n + 1]>> ELSE NatToStr(n \div 10) \o <<Digits[(n % 10) + 1]>>
IntToStr(n) == IF n < 0 THEN <<"-">> \o NatToStr(-n) ELSE NatToStr(n)

\* The end of a match of r'LIMIT\s+\d+' (re.IGNORECASE) that starts at position i
\* of s: the position of its last digit, 0 when there is no match there.
LimitMatchEnd(s, i) ==
    IF ~(i + 4 <= Len(s) /\ UpperChar(s[i]) = "L" /\ Upper(SubSeq(s, i, i + 4)) = LIMIT) THEN 0
    ELSE LET ws == CHOOSE j \in (i+4)..Len(s) :
                       /\ (j < Len(s) => s[j+1] \notin Whitespace)
                       /\ \A k \in (i+5)..j : s[k] \in Whitespace
             ds == CHOOSE j \in ws..Len(s) :
                       /\ (j < Len(s) => s[j+1] \notin DigitSet)
                       /\ \A k \in (ws+1)..j : s[k] \in DigitSet
         IN  IF ws > i + 4 /\ ds > ws THEN ds ELSE 0

\* int(ds) of Python for a text of digits
RECURSIVE StrToNat(_, _)
StrToNat(ds, acc) ==
    IF ds = <<>> THEN acc ELSE StrToNat(Tail(ds), 10 * acc + (IndexIn(Head(ds), Digits) - 1))

\* The replacement as the comment of line 77 describes it: a limit is replaced
\* only if it is too high.
RECURSIVE ReplaceLimit_IfTooHigh(_, _)
ReplaceLimit_IfTooHigh(s, limit) ==
    LET hits == { i \in DOMAIN s : LimitMatchEnd(s, i) > 0 }
        i == CHOOSE i \in hits : \A j \in hits : i <= j
        e == LimitMatchEnd(s, i)
        n == StrToNat(LStripChars(SubSeq(s, i + 5, e), Whitespace), 0)
    IN  IF hits = {} THEN s
        ELSE SubSeq(s, 1, i - 1)
                 \o (IF n > limit THEN LIMIT \o <<" ">> \o IntToStr(limit) ELSE SubSeq(s, i, e))
                 \o ReplaceLimit_IfTooHigh(From(s, e + 1), limit)

\* re.sub(r'LIMIT\s+\d+', f'LIMIT {limit}', sql, flags=re.IGNORECASE): every
\* match, from the left, is replaced.
RECURSIVE ReplaceLimit(_, _)
ReplaceLimit(s, limit) ==
    LET hits == { i \in DOMAIN s : LimitMatchEnd(s, i) > 0 }
        i == CHOOSE i \in hits : \A j \in hits : i <= j
        e == LimitMatchEnd(s, i)
    IN  IF hits = {} THEN s
        ELSE SubSeq(s, 1, i - 1) \o LIMIT \o <<" ">> \o IntToStr(limit)
                 \o ReplaceLimit(From(s, e + 1), limit)

\* An Optional[int] is <<>> for None and <<n>> for the integer n.
NoLimit == <<>>

\* The limit as it would be if no requested limit meant the maximum.
EffectiveLimit_MaximumForNone(limit) ==
    IF limit = NoLimit \/ limit[1] = 0 \/ limit[1] > MAX_QUERY_LIMIT
    THEN MAX_QUERY_LIMIT ELSE limit[1]

\* The limit enforce_limit writes (lines 69-72): `limit or DEFAULT_QUERY_LIMIT`
\* is the default both for None and for 0; the result is capped at the maximum.
EffectiveLimit(limit) ==
    LET l == IF limit = NoLimit \/ limit[1] = 0 THEN DEFAULT_QUERY_LIMIT ELSE limit[1]
    IN  IF l > MAX_QUERY_LIMIT THEN MAX_QUERY_LIMIT ELSE l

\* enforce_limit as it would be without the test of line 76: the clause is
\* appended whether one is there or not.
enforce_limit_AlwaysAppends(sql, limit) ==
    RStripChars(RStrip(sql), {";"}) \o <<" ">> \o LIMIT \o <<" ">>
        \o IntToStr(EffectiveLimit(limit)) \o <<";">>

\* SQLValidator.enforce_limit(sql, limit)
enforce_limit(sql, limit) ==
    IF Contains(Upper(sql), LIMIT)
    THEN ReplaceLimit(sql, EffectiveLimit(limit))
    ELSE RStripChars(RStrip(sql), {";"}) \o <<" ">> \o LIMIT \o <<" ">>
             \o IntToStr(EffectiveLimit(limit)) \o <<";">>

\* ------------------------------------------------------------------------
\* SQLAgent (src/src/llm/sql_agent.py)
\* ------------------------------------------------------------------------

\* The backquote character, which a TLA+ string literal cannot hold.
BACKQUOTE == "bq"

FENCE == <<BACKQUOTE, BACKQUOTE, BACKQUOTE>>
FENCE_SQL == FENCE \o <<"s","q","l">>

\* The labels of the prefix pattern, in the order of its alternation.
PREFIXES ==
    << <<"S","Q","L"," ","Q","u","e","r","y",":">>,
       <<"Q","u","e","r","y",":">>,
       <<"A","n","s","w","e","r",":">> >>

\* re.sub(pat + r'\n?', '', s) for a literal pat: every occurrence goes, with the
\* newline that follows it when there is one.
RECURSIVE RemoveWithNewline(_, _)
RemoveWithNewline(s, pat) ==
    LET i == Find(s, pat)
        rest == From(s, i + Len(pat))
    IN  IF i = 0 THEN s
        ELSE SubSeq(s, 1, i - 1)
                 \o RemoveWithNewline(IF MatchAt(rest, 1, <<"\n">>) THEN Tail(rest) ELSE rest, pat)

\* re.sub(r'^(SQL Query:|Query:|Answer:)\s*', '', sql, flags=re.IGNORECASE):
\* without re.MULTILINE the label is looked for at the start of the text only.
RemovePrefix(s) ==
    IF \E k \in DOMAIN PREFIXES : MatchAt(Upper(s), 1, Upper(PREFIXES[k]))
    THEN LET k == CHOOSE k \in DOMAIN PREFIXES :
                      /\ MatchAt(Upper(s), 1, Upper(PREFIXES[k]))
                      /\ \A j \in 1..(k-1) : ~MatchAt(Upper(s), 1, Upper(PREFIXES[j]))
         IN  LStripChars(From(s, Len(PREFIXES[k]) + 1), Whitespace)
    ELSE s

\* s.split('\n')
RECURSIVE SplitLines(_)
SplitLines(s) ==
    LET i == Find(s, <<"\n">>)
    IN  IF i = 0 THEN <<s>>
        ELSE <<SubSeq(s, 1, i - 1)>> \o SplitLines(From(s, i + 1))

\* The loop of lines 78-84 as it would be without the break of line 84: every
\* surviving line is kept.
RECURSIVE TakeLines_WithoutBreak(_)
TakeLines_WithoutBreak(ls) ==
    IF ls = <<>> THEN <<>>
    ELSE LET line == Strip(Head(ls))
         IN  IF line # <<>> /\ ~StartsWith(line, <<"#">>) /\ ~StartsWith(line, <<"-","-">>)
             THEN <<line>> \o TakeLines_WithoutBreak(Tail(ls))
             ELSE TakeLines_WithoutBreak(Tail(ls))

\* The loop of lines 78-84: the trimmed lines that are neither blank nor start
\* with '#' or '--', up to the first of them that ends with ';'.
RECURSIVE TakeLines(_)
TakeLines(ls) ==
    IF ls = <<>> THEN <<>>
    ELSE LET line == Strip(Head(ls))
         IN  IF line # <<>> /\ ~StartsWith(line, <<"#">>) /\ ~StartsWith(line, <<"-","-">>)
             THEN IF EndsWith(line, <<";">>) THEN <<line>>
                  ELSE <<line>> \o TakeLines(Tail(ls))
             ELSE TakeLines(Tail(ls))

\* ' '.join(lines)
RECURSIVE JoinSpace(_)
JoinSpace(ls) ==
    IF ls = <<>> THEN <<>>
    ELSE IF Len(ls) = 1 THEN ls[1]
    ELSE ls[1] \o <<" ">> \o JoinSpace(Tail(ls))

\* SQLAgent._extract_sql(response)
extract_sql(response) ==
    LET unfenced == RemoveWithNewline(RemoveWithNewline(response, FENCE_SQL), FENCE)
        sql == Strip(JoinSpace(TakeLines(SplitLines(RemovePrefix(unfenced)))))
    IN  IF EndsWith(sql, <<";">>) THEN sql ELSE sql \o <<";">>

\* validate_and_fix_sql as it would be if the verdict of validate were ignored.
validate_and_fix_sql_LimitingRejected(allowed_table, sql, parse) ==
    LET v == validate(allowed_table, sql, parse)
    IN  [is_valid |-> v.valid, fixed_sql |-> enforce_limit(sql, NoLimit), error |-> v.error]

validate_and_fix_sql_IgnoringVerdict(allowed_table, sql, parse) ==
    [is_valid |-> TRUE, fixed_sql |-> enforce_limit(sql, NoLimit), error |-> Accepted.error]

\* SQLAgent.validate_and_fix_sql(sql): (is_valid, fixed_sql, error_message)
validate_and_fix_sql(allowed_table, sql, parse) ==
    LET r == validate(allowed_table, sql, parse)
    IN  IF ~r.valid THEN [is_valid |-> FALSE, fixed_sql |-> sql, error |-> r.error]
        ELSE [is_valid |-> TRUE, fixed_sql |-> enforce_limit(sql, NoLimit), error |-> Accepted.error]

\* ------------------------------------------------------------------------
\* Candidate statements: an opening followed by a bounded run of fragments
\* ------------------------------------------------------------------------

\* Bounds of the model
MaxFrags == 4
MaxLimitFrags == 4

\* ""
HeadEmpty == <<>>
\* "select created_at from Dev_Diamond2"
HeadSelect == <<"s","e","l","e","c","t"," ","c","r","e","a","t","e","d","_","a","t"," ","f","r","o","m"," ","D","e","v","_","D","i","a","m","o","n","d","2">>
\* "SELECT * FROM other_table"
HeadOtherTable == <<"S","E","L","E","C","T"," ","*"," ","F","R","O","M"," ","o","t","h","e","r","_","t","a","b","l","e">>
\* "DELETE FROM dev_diamond2 WHERE id=1"
HeadDelete == <<"D","E","L","E","T","E"," ","F","R","O","M"," ","d","e","v","_","d","i","a","m","o","n","d","2"," ","W","H","E","R","E"," ","i","d","=","1">>
\* "SELECT * FROM dev_diamond2 WHERE shape = '" (the statement goes on inside a string literal)
HeadLiteral == <<"S","E","L","E","C","T"," ","*"," ","F","R","O","M"," ","d","e","v","_","d","i","a","m","o","n","d","2"," ","W","H","E","R","E"," ","s","h","a","p","e"," ","="," ","'">>

\* "WITH d AS (SELECT * FROM dev_diamond2) SELECT * FROM d"
HeadWith == <<"W","I","T","H"," ","d"," ","A","S"," ","(","S","E","L","E","C","T"," ","*"," ","F","R","O","M"," ","d","e","v","_","d","i","a","m","o","n","d","2",")"," ","S","E","L","E","C","T"," ","*"," ","F","R","O","M"," ","d">>

\* "select created_at, DE/**/LETE from Dev_Diamond2" (a comment inside a word)
HeadSplit == <<"s","e","l","e","c","t"," ","c","r","e","a","t","e","d","_","a","t",","," ","D","E","/","*","*","/","L","E","T","E"," ","f","r","o","m"," ","D","e","v","_","D","i","a","m","o","n","d","2">>

Heads == {HeadEmpty, HeadSelect, HeadOtherTable, HeadDelete, HeadLiteral, HeadWith, HeadSplit}

Fragments ==
    { <<";">>, <<"-","-">>, <<"\n">>, <<"/","*">>, <<"*","/">>, <<"'">>,
      <<" ","i","n","s","e","r","t">> }

LimitHeads == {HeadSelect, HeadOtherTable}

LimitFragments ==
    { <<" ","L","I","M","I","T">>, <<" ","l","i","m","i","t">>, <<" ","1","0">>, <<" ","1","0","0","0","0">>,
      <<";">>, <<"\n">>, <<"_","x">> }

\* The limits a caller asks for: none, one below and one above the maximum,
\* zero and a negative one (limit is any int).
Limits == {NoLimit, <<5>>, <<5000>>, <<0>>, <<-5>>}

RECURSIVE Concat(_)
Concat(fs) == IF fs = <<>> THEN <<>> ELSE Head(fs) \o Concat(Tail(fs))

FragmentRuns(frags, n) == UNION { [1..k -> frags] : k \in 0..n }

Candidates == { h \o Concat(fs) : h \in Heads, fs \in FragmentRuns(Fragments, MaxFrags) }
LimitCandidates == { h \o Concat(fs) : h \in LimitHeads, fs \in FragmentRuns(LimitFragments, MaxLimitFrags) }

\* ------------------------------------------------------------------------
\* State
\* ------------------------------------------------------------------------

VARIABLES
    \* direct calls on a SQLValidator
    step,        \* where the call sequence on the validator stands
    candidate,   \* the candidate statement handed to the validator
    verdict,     \* what validate returned for it
    requested,   \* the limit argument of enforce_limit
    output,      \* what enforce_limit returned
    \* a QueryService and the tables it writes
    pc,                 \* where process_query stands
    user_id,            \* QueryService.user_id (None for a guest)
    requests,           \* process_query calls started so far
    gen_sql,            \* `sql` of process_query
    fix,                \* (is_valid, fixed_sql, error) of validate_and_fix_sql
    sent,               \* the generated statements handed to session.execute in this call
    rows,               \* the rows the database returned in this call
    chat_history,       \* public.chat_history of the session: the roles, in order
    query_logs,         \* public.query_logs: the rows written, in order
    session_summaries,  \* writes to public.session_summaries
    user_memory,        \* writes to public.user_memory
    result,             \* what the last process_query call returned
    memory_read,        \* (session_summary, user_memory) as read for the context
    \* one SQLValidator called from several request handlers at once
    policy,             \* the validator's allowed_table, allowed_schema, DANGEROUS_KEYWORDS
    calls,              \* per handler: its call on the validator, in flight or returned
    tickets,            \* the calls made on the validator so far
    \* a direct call of SQLAgent._extract_sql
    agent_pc,           \* where the call stands
    raw,                \* the raw text handed to _extract_sql
    extracted,          \* what _extract_sql returned
    \* one request on POST /query/stream
    stream_pc,          \* where event_generator stands
    stream_result,      \* what its process_query call returned or raised
    events,             \* the events sent so far, in order
    batch_start,        \* `i` of the loop over the batches
    \* one connection on the WebSocket endpoint /ws/query
    ws_pc,              \* where websocket_query stands
    ws_token,           \* the token the connection presented
    ws_inbound,         \* the kind of the last message received
    ws_sent,            \* the types of the messages sent so far, in order
    ws_close,           \* how the connection was closed ("open" while it is not)
    ws_received,        \* messages received so far
    ws_chunks,          \* chunks streamed for the query in hand
    ws_queries,         \* process_query calls made on the connection
    \* POST /query and the users table
    last_session_id,    \* users.last_session_id of the user
    session_used,       \* the session id of the user's most recent /query request
    uuids,              \* uuid4() values drawn so far
    endpoint_requests   \* /query requests the user has made

gate_vars == <<step, candidate, verdict, requested, output>>
service_vars == <<pc, user_id, requests, gen_sql, fix, sent, rows, chat_history,
                  query_logs, session_summaries, user_memory, result, memory_read>>
shared_vars == <<policy, calls, tickets>>
agent_vars == <<agent_pc, raw, extracted>>
stream_vars == <<stream_pc, stream_result, events, batch_start>>
ws_vars == <<ws_pc, ws_token, ws_inbound, ws_sent, ws_close, ws_received, ws_chunks, ws_queries>>
endpoint_vars == <<last_session_id, session_used, uuids, endpoint_requests>>
api_vars == <<stream_vars, ws_vars, endpoint_vars>>
core_vars == <<gate_vars, service_vars, shared_vars, agent_vars>>
vars == <<gate_vars, service_vars, shared_vars, agent_vars, api_vars>>

NoVerdict == [valid |-> FALSE, error |-> [kind |-> "pending", detail |-> <<>>]]

\* validate(candidate) is called; sqlparse behaves in one of the ways it can.
Validate ==
    /\ step = "candidate"
    /\ \E parse \in ParseOutcomes(StripComments(candidate)) :
           verdict' = validate(TABLE_NAME, candidate, parse)
    /\ step' = "validated"
    /\ UNCHANGED <<candidate, requested, output, service_vars, shared_vars, agent_vars, api_vars>>

\* enforce_limit(candidate, limit) is called.
EnforceLimit ==
    /\ step = "validated"
    /\ \E limit \in Limits :
           /\ requested' = limit
           /\ output' = enforce_limit(candidate, limit)
    /\ step' = "limited"
    /\ UNCHANGED <<candidate, verdict, service_vars, shared_vars, agent_vars, api_vars>>

\* enforce_limit is called again, on what it returned and with the same limit.
EnforceLimitAgain ==
    /\ step = "limited"
    /\ output' = enforce_limit(output, requested)
    /\ step' = "relimited"
    /\ UNCHANGED <<candidate, verdict, requested, service_vars, shared_vars, agent_vars, api_vars>>

NoFix == [is_valid |-> FALSE, fixed_sql |-> <<>>, error |-> NoVerdict.error]
NoResult == [success |-> FALSE, error |-> NoVerdict.error, sql |-> <<>>, columns |-> <<>>, rows |-> <<>>]

\* A QueryService on which no call has been made, with empty tables.
NewService ==
    /\ pc = "idle"
    /\ requests = 0
    /\ gen_sql = <<>>
    /\ fix = NoFix
    /\ sent = <<>>
    /\ rows = <<>>
    /\ chat_history = <<>>
    /\ query_logs = <<>>
    /\ session_summaries = 0
    /\ user_memory = 0
    /\ result = NoResult
    /\ memory_read = <<None, None>>

\* The policy a validator is built with (SQLValidator.__init__), and a validator
\* that no request handler is calling.
BuiltPolicy ==
    [allowed_table |-> TABLE_NAME, allowed_schema |-> "public", keywords |-> DANGEROUS_KEYWORDS]

NoCall == [pc |-> "idle", op |-> "none", sql |-> <<>>, limit |-> NoLimit, parse |-> "parsed",
           ticket |-> 0, made |-> 0, verdict |-> NoVerdict, output |-> <<>>]

Callers == {1, 2}

\* What event_generator holds of process_query before it has called it.
NoStreamResult == [outcome |-> "pending", rows |-> <<>>]

NoStreamCall ==
    /\ stream_pc = "unused"
    /\ stream_result = NoStreamResult
    /\ events = <<>>
    /\ batch_start = 0

NoWsCall ==
    /\ ws_pc = "unused"
    /\ ws_token = "none"
    /\ ws_inbound = "none"
    /\ ws_sent = <<>>
    /\ ws_close = "open"
    /\ ws_received = 0
    /\ ws_chunks = 0
    /\ ws_queries = 0

\* No session id (a null last_session_id, `session_id = None`); the session ids
\* are the numbers from 1 on.
NoSession == 0

\* No /query request was made.
NoEndpointCall ==
    /\ last_session_id = NoSession
    /\ session_used = NoSession
    /\ uuids = 0
    /\ endpoint_requests = 0

NoApiCall == NoStreamCall /\ NoWsCall /\ NoEndpointCall

NoExtractCall ==
    /\ agent_pc = "unused"
    /\ raw = <<>>
    /\ extracted = <<>>

NoSharedCalls ==
    /\ policy = BuiltPolicy
    /\ calls = [c \in Callers |-> NoCall]
    /\ tickets = 0

\* A validator on which no call is made.
NoGateCall ==
    /\ step = "unused"
    /\ candidate = <<>>
    /\ verdict = NoVerdict
    /\ requested = NoLimit
    /\ output = <<>>

InitValidate ==
    /\ step = "candidate"
    /\ candidate \in Candidates
    /\ verdict = NoVerdict
    /\ requested = NoLimit
    /\ output = <<>>
    /\ user_id = None
    /\ NewService
    /\ NoSharedCalls
    /\ NoExtractCall
    /\ NoApiCall

NextValidate == Validate

SpecValidate == InitValidate /\ [][NextValidate]_vars

InitLimit ==
    /\ step = "candidate"
    /\ candidate \in LimitCandidates
    /\ verdict = NoVerdict
    /\ requested = NoLimit
    /\ output = <<>>
    /\ user_id = None
    /\ NewService
    /\ NoSharedCalls
    /\ NoExtractCall
    /\ NoApiCall

NextLimit == Validate \/ EnforceLimit \/ EnforceLimitAgain

SpecLimit == InitLimit /\ [][NextLimit]_vars

\* ------------------------------------------------------------------------
\* QueryService.process_query (src/src/services/query_service.py)
\* ------------------------------------------------------------------------

\* Bound of the model: the process_query calls made on the session
MaxRequests == 2

\* What the language model answers: a statement, bare, in a code fence, or
\* behind a label and followed by a line of explanation.
Statements ==
    { HeadEmpty,
      HeadSelect,
      HeadSelect \o <<";">>,
      \* "SELECT * FROM dev_diamond2 LIMIT 10000;"
      <<"S","E","L","E","C","T"," ","*"," ","F","R","O","M"," ","d","e","v","_","d","i","a","m","o","n","d","2"," ","L","I","M","I","T"," ","1","0","0","0","0",";">>,
      \* "SELECT * FROM other_table LIMIT 10;"
      HeadOtherTable \o <<" ","L","I","M","I","T"," ","1","0",";">>,
      HeadDelete \o <<";">>,
      \* "SELECT * FROM dev_diamond2; SELECT * FROM users;"
      <<"S","E","L","E","C","T"," ","*"," ","F","R","O","M"," ","d","e","v","_","d","i","a","m","o","n","d","2",";"," ","S","E","L","E","C","T"," ","*"," ","F","R","O","M"," ","u","s","e","r","s",";">>,
      \* "SELECT * FROM dev_diamond2 WHERE shape = '--'; DELETE FROM dev_diamond2"
      HeadLiteral \o <<"-","-","'",";"," ","D","E","L","E","T","E"," ","F","R","O","M"," ","d","e","v","_","d","i","a","m","o","n","d","2">> }

Bare(stmt) == stmt
Fenced(stmt) == FENCE_SQL \o <<"\n">> \o stmt \o <<"\n">> \o FENCE
Labelled(stmt) == <<"S","Q","L"," ","Q","u","e","r","y",":"," ">> \o stmt \o <<"\n","T","h","i","s"," ","q","u","e","r","y"," ","a","n","s","w","e","r","s"," ","t","h","e"," ","q","u","e","s","t","i","o","n",".">>

Responses == { Bare(st) : st \in Statements } \cup { Fenced(st) : st \in Statements }
                 \cup { Labelled(st) : st \in Statements }

\* The users a service is built for: a guest and an authenticated user.
UserIds == {None, "user1"}

\* What the database returns for an executed statement.
ResultSets == { <<>>, <<"row1", "row2">> }

\* list(result.keys()) of an executed statement
Columns == <<"created_at">>

\* str(e) of an exception caught at line 121
ExceptionError == [kind |-> "Exception", detail |-> <<>>]

LogRow(generated_sql, validation_status, execution_status) ==
    [generated_sql |-> generated_sql, validation_status |-> validation_status,
     execution_status |-> execution_status]

\* process_query did not return: an exception left it.
Raised ==
    [success |-> FALSE, error |-> [kind |-> "raised", detail |-> <<>>], sql |-> <<>>,
     columns |-> <<>>, rows |-> <<>>]

Failure(error, sql) ==
    [success |-> FALSE, error |-> error, sql |-> sql, columns |-> <<>>, rows |-> <<>>]

\* The guard left out, as if the four methods did not look at user_id.
IsGuest_Never(uid) == FALSE

\* `if not self.user_id` of _get_session_summary, _update_session_summary,
\* _get_user_memory and _update_user_memory (lines 161, 171, 190, 199).
IsGuest(uid) == uid = None

\* _get_session_summary: None for a guest, None when the user has no row, else
\* the row's summary (known here by the number of writes that made it).
get_session_summary(uid, written) ==
    IF IsGuest(uid) THEN None ELSE IF written = 0 THEN None ELSE <<"summary", written>>

\* _get_user_memory: likewise.
get_user_memory(uid, written) ==
    IF IsGuest(uid) THEN None ELSE IF written = 0 THEN None ELSE <<"memory", written>>

\* Lines 28-70: the call starts, the user's message is saved, the context is read.
Begin ==
    /\ pc = "idle"
    /\ requests < MaxRequests
    /\ requests' = requests + 1
    /\ chat_history' = Append(chat_history, "user")
    /\ gen_sql' = <<>>
    /\ fix' = NoFix
    /\ sent' = <<>>
    /\ rows' = <<>>
    /\ result' = NoResult
    /\ pc' = "generate"
    /\ memory_read' = <<get_session_summary(user_id, session_summaries),
                        get_user_memory(user_id, user_memory)>>
    /\ UNCHANGED <<user_id, query_logs, session_summaries, user_memory, gate_vars, shared_vars, agent_vars, api_vars>>

\* Line 73: SQLAgent.generate_sql returns the statement extracted from the
\* model's answer, which LLMProvider.generate_response has stripped.
GenerateSql ==
    /\ pc = "generate"
    /\ \E response \in Responses : gen_sql' = extract_sql(Strip(response))
    /\ pc' = "validate"
    /\ UNCHANGED <<user_id, memory_read, requests, fix, sent, rows, chat_history, query_logs,
                   session_summaries, user_memory, result, gate_vars, shared_vars, agent_vars, api_vars>>

\* Line 73 raises (the model call fails): lines 121-124 log and return the error.
GenerateFails ==
    /\ pc = "generate"
    /\ query_logs' = Append(query_logs, LogRow(<<>>, "error", "failed"))
    /\ result' = Failure(ExceptionError, <<>>)
    /\ pc' = "idle"
    /\ UNCHANGED <<user_id, memory_read, requests, gen_sql, fix, sent, rows, chat_history,
                   session_summaries, user_memory, gate_vars, shared_vars, agent_vars, api_vars>>

\* Lines 74-78: validate_and_fix_sql; a rejected statement is logged and returned.
ValidateAndFix ==
    /\ pc = "validate"
    /\ \E parse \in ParseOutcomes(StripComments(gen_sql)) :
         LET f == validate_and_fix_sql(TABLE_NAME, gen_sql, parse)
         IN  /\ fix' = f
             /\ IF ~f.is_valid
                THEN /\ query_logs' = Append(query_logs, LogRow(gen_sql, "invalid", "failed"))
                     /\ result' = Failure(f.error, gen_sql)
                     /\ pc' = "idle"
                ELSE /\ pc' = "execute"
                     /\ UNCHANGED <<query_logs, result>>
    /\ UNCHANGED <<user_id, memory_read, requests, gen_sql, sent, rows, chat_history,
                   session_summaries, user_memory, gate_vars, shared_vars, agent_vars, api_vars>>

\* Lines 81-85: the fixed statement is executed and its rows are fetched.
Execute ==
    /\ pc = "execute"
    /\ sent' = Append(sent, fix.fixed_sql)
    /\ \E rs \in ResultSets : rows' = rs
    /\ pc' = "summarize"
    /\ UNCHANGED <<user_id, memory_read, requests, gen_sql, fix, chat_history, query_logs,
                   session_summaries, user_memory, result, gate_vars, shared_vars, agent_vars, api_vars>>

\* Line 81 raises (the database refuses the statement): lines 121-124.
ExecuteFails ==
    /\ pc = "execute"
    /\ sent' = Append(sent, fix.fixed_sql)
    /\ query_logs' = Append(query_logs, LogRow(gen_sql, "error", "failed"))
    /\ result' = Failure(ExceptionError, gen_sql)
    /\ pc' = "idle"
    /\ UNCHANGED <<user_id, memory_read, requests, gen_sql, fix, rows, chat_history,
                   session_summaries, user_memory, gate_vars, shared_vars, agent_vars, api_vars>>

\* Line 81 raises and leaves the session's transaction failed: the INSERT of
\* _log_query at line 123 raises in its turn, inside the except block, so the
\* exception leaves process_query, which returns nothing and logs nothing.
ExecuteFailsLogFails ==
    /\ pc = "execute"
    /\ sent' = Append(sent, fix.fixed_sql)
    /\ result' = Raised
    /\ pc' = "idle"
    /\ UNCHANGED <<user_id, memory_read, requests, gen_sql, fix, rows, chat_history, query_logs,
                   session_summaries, user_memory, gate_vars, shared_vars, agent_vars, api_vars>>

\* Lines 88-119: the result is summarized, the assistant's message saved, the
\* memory of an authenticated user updated, the query logged and returned.
Finish ==
    /\ pc = "summarize"
    /\ chat_history' = Append(chat_history, "assistant")
    /\ session_summaries' = IF IsGuest(user_id) THEN session_summaries ELSE session_summaries + 1
    /\ user_memory' = IF IsGuest(user_id) THEN user_memory ELSE user_memory + 1
    /\ query_logs' = Append(query_logs, LogRow(fix.fixed_sql, "valid", "success"))
    /\ result' = [success |-> TRUE, error |-> Accepted.error, sql |-> fix.fixed_sql,
                   columns |-> Columns, rows |-> rows]
    /\ pc' = "idle"
    /\ UNCHANGED <<user_id, memory_read, requests, gen_sql, fix, sent, rows, gate_vars, shared_vars, agent_vars, api_vars>>

\* Lines 88-105 and 121-124: the assistant's message is saved (line 101), then a
\* later write raises: _update_session_summary (line 104, which writes only for
\* an authenticated user) or, the memory once updated, _log_query (line 108).
\* The except block logs the error and returns it, unless its own log write
\* raises too and the exception leaves process_query.
FinishFails ==
    /\ pc = "summarize"
    /\ chat_history' = Append(chat_history, "assistant")
    /\ \E raising \in {"_update_session_summary", "_log_query"} :
           IF raising = "_update_session_summary"
           THEN /\ ~IsGuest(user_id)
                /\ UNCHANGED <<session_summaries, user_memory>>
           ELSE /\ session_summaries' = IF IsGuest(user_id) THEN session_summaries
                                        ELSE session_summaries + 1
                /\ user_memory' = IF IsGuest(user_id) THEN user_memory ELSE user_memory + 1
    /\ \/ /\ query_logs' = Append(query_logs, LogRow(gen_sql, "error", "failed"))
          /\ result' = Failure(ExceptionError, gen_sql)
       \/ /\ query_logs' = query_logs
          /\ result' = Raised
    /\ pc' = "idle"
    /\ UNCHANGED <<user_id, memory_read, requests, gen_sql, fix, sent, rows, gate_vars, shared_vars,
                   agent_vars, api_vars>>

Init ==
    /\ NoGateCall
    /\ user_id \in UserIds
    /\ NewService
    /\ NoSharedCalls
    /\ NoExtractCall
    /\ NoApiCall

Next ==
    \/ Begin
    \/ GenerateSql
    \/ GenerateFails
    \/ ValidateAndFix
    \/ Execute
    \/ ExecuteFails
    \/ ExecuteFailsLogFails
    \/ Finish
    \/ FinishFails

Spec == Init /\ [][Next]_vars

\* ------------------------------------------------------------------------
\* SQLAgent._extract_sql called on raw generator texts
\* ------------------------------------------------------------------------

\* Bound of the model: the fragments that follow the opening of a raw text
MaxRawFrags == 4

\* "SQL Query: select created_at from Dev_Diamond2"
RawLabelled == <<"S","Q","L"," ","Q","u","e","r","y",":"," ">> \o HeadSelect

\* " answer: select created_at from Dev_Diamond2" (a label behind a space)
RawSpaceLabelled == <<" ","a","n","s","w","e","r",":"," ">> \o HeadSelect
\* "```sql\nQuery: select created_at from Dev_Diamond2" (a label behind an opening fence)
RawFenceLabelled == FENCE_SQL \o <<"\n","Q","u","e","r","y",":"," ">> \o HeadSelect

RawHeads == {HeadEmpty, HeadSelect, RawLabelled, RawSpaceLabelled, RawFenceLabelled}

RawFragments ==
    { <<";">>, <<"\n">>, <<" ">>, FENCE_SQL, FENCE, <<BACKQUOTE>>, <<"-","-">>, <<"#">>, <<"x">> }

RawTexts == { h \o Concat(fs) : h \in RawHeads, fs \in FragmentRuns(RawFragments, MaxRawFrags) }

\* _extract_sql(response) is called and returns.
ExtractSql ==
    /\ agent_pc = "raw"
    /\ extracted' = extract_sql(raw)
    /\ agent_pc' = "extracted"
    /\ UNCHANGED <<raw, gate_vars, service_vars, shared_vars, api_vars>>

InitExtract ==
    /\ NoGateCall
    /\ user_id = None
    /\ NewService
    /\ NoSharedCalls
    /\ agent_pc = "raw"
    /\ raw \in RawTexts
    /\ extracted = <<>>
    /\ NoApiCall

NextExtract == ExtractSql

SpecExtract == InitExtract /\ [][NextExtract]_vars

\* ------------------------------------------------------------------------
\* POST /query/stream: query_stream.event_generator (src/src/api/streaming.py)
\* ------------------------------------------------------------------------

\* batch_size of line 50
batch_size == 10

\* Bound of the model: the rows of a result
MaxRows == 21

\* A result of n rows: row i is known by its place, and holds values that
\* json.dumps can write unless it is the row `bad` (a Decimal of an AVG, a
\* timestamp), on which json.dumps raises TypeError.
ResultRows(n, bad) == [i \in 1..n |-> [id |-> i, json |-> i # bad]]

\* What process_query does for event_generator: it raises, it returns
\* success = false, or it returns the rows of the executed statement.
StreamResults ==
    { [outcome |-> "raised", rows |-> <<>>], [outcome |-> "failure", rows |-> <<>>] }
        \cup { [outcome |-> "success", rows |-> ResultRows(n, bad)] : n \in 0..MaxRows, bad \in 0..MaxRows }

Event(type, batch) == [event |-> type, rows |-> batch]

\* result['rows'][i:i+batch_size] for i = batch_start
Batch ==
    LET all == stream_result.rows
        last == IF batch_start + batch_size < Len(all) THEN batch_start + batch_size ELSE Len(all)
    IN  SubSeq(all, batch_start + 1, last)

\* Line 25: the start event.
SendStart ==
    /\ stream_pc = "start"
    /\ events' = Append(events, Event("start", <<>>))
    /\ stream_pc' = "status"
    /\ UNCHANGED <<stream_result, batch_start, core_vars, ws_vars, endpoint_vars>>

\* Lines 28-32: the service is built and the status event sent.
SendStatus ==
    /\ stream_pc = "status"
    /\ events' = Append(events, Event("status", <<>>))
    /\ stream_pc' = "process"
    /\ UNCHANGED <<stream_result, batch_start, core_vars, ws_vars, endpoint_vars>>

\* Line 35: process_query returns or raises.
StreamProcessQuery ==
    /\ stream_pc = "process"
    /\ stream_result' \in StreamResults
    /\ stream_pc' = "result"
    /\ UNCHANGED <<events, batch_start, core_vars, ws_vars, endpoint_vars>>

\* Lines 37-39: the result has success = false: one error event, and return.
SendResultError ==
    /\ stream_pc = "result"
    /\ stream_result.outcome = "failure"
    /\ events' = Append(events, Event("error", <<>>))
    /\ stream_pc' = "done"
    /\ UNCHANGED <<stream_result, batch_start, core_vars, ws_vars, endpoint_vars>>

\* Lines 63-65: an exception inside the try is answered with an error event:
\* process_query raised, or json.dumps raised on the batch to send.
SendExceptionError ==
    /\ \/ stream_pc = "result" /\ stream_result.outcome = "raised"
       \/ /\ stream_pc = "rows"
          /\ batch_start < Len(stream_result.rows)
          /\ \E k \in DOMAIN Batch : ~Batch[k].json
    /\ events' = Append(events, Event("error", <<>>))
    /\ stream_pc' = "done"
    /\ UNCHANGED <<stream_result, batch_start, core_vars, ws_vars, endpoint_vars>>

\* Line 42: the sql event.
SendSql ==
    /\ stream_pc = "result"
    /\ stream_result.outcome = "success"
    /\ events' = Append(events, Event("sql", <<>>))
    /\ stream_pc' = "columns"
    /\ UNCHANGED <<stream_result, batch_start, core_vars, ws_vars, endpoint_vars>>

\* Lines 46-50: the columns event; the loop over the batches starts at 0.
SendColumns ==
    /\ stream_pc = "columns"
    /\ events' = Append(events, Event("columns", <<>>))
    /\ batch_start' = 0
    /\ stream_pc' = "rows"
    /\ UNCHANGED <<stream_result, core_vars, ws_vars, endpoint_vars>>

\* Lines 51-54: one turn of the loop sends one batch.
SendRows ==
    /\ stream_pc = "rows"
    /\ batch_start < Len(stream_result.rows)
    /\ \A k \in DOMAIN Batch : Batch[k].json
    /\ events' = Append(events, Event("rows", Batch))
    /\ batch_start' = batch_start + batch_size
    /\ UNCHANGED <<stream_pc, stream_result, core_vars, ws_vars, endpoint_vars>>

\* Line 57: the loop is over; the summary event.
SendSummary ==
    /\ stream_pc = "rows"
    /\ batch_start >= Len(stream_result.rows)
    /\ events' = Append(events, Event("summary", <<>>))
    /\ stream_pc' = "complete"
    /\ UNCHANGED <<stream_result, batch_start, core_vars, ws_vars, endpoint_vars>>

\* Line 61: the complete event.
SendComplete ==
    /\ stream_pc = "complete"
    /\ events' = Append(events, Event("complete", <<>>))
    /\ stream_pc' = "done"
    /\ UNCHANGED <<stream_result, batch_start, core_vars, ws_vars, endpoint_vars>>

InitStream ==
    /\ NoGateCall
    /\ user_id = None
    /\ NewService
    /\ NoSharedCalls
    /\ NoExtractCall
    /\ stream_pc = "start"
    /\ stream_result = NoStreamResult
    /\ events = <<>>
    /\ batch_start = 0
    /\ NoWsCall
    /\ NoEndpointCall

NextStream ==
    \/ SendStart
    \/ SendStatus
    \/ StreamProcessQuery
    \/ SendResultError
    \/ SendExceptionError
    \/ SendSql
    \/ SendColumns
    \/ SendRows
    \/ SendSummary
    \/ SendComplete

SpecStream == InitStream /\ [][NextStream]_vars

\* ------------------------------------------------------------------------
\* WebSocket /ws/query: websocket_query (src/src/api/websocket_endpoint.py)
\* ------------------------------------------------------------------------

\* Bounds of the model: the messages a connection receives, and the chunks the
\* language model streams for one query
MaxMessages == 3
MaxChunks == 2

\* The token of the query string: none (a guest), one that decodes, one that
\* decode_access_token refuses.
Tokens == {"none", "valid", "invalid"}

Send(type) == Append(ws_sent, type)

\* Lines 22-31, 43-46: the connection is accepted; no token, or one that
\* decodes: the service is built and the loop entered.
WsAccept ==
    /\ ws_pc = "connect"
    /\ ws_token \in {"none", "valid"}
    /\ ws_pc' = "receive"
    /\ UNCHANGED <<ws_token, ws_inbound, ws_sent, ws_close, ws_received, ws_chunks, ws_queries,
                   core_vars, stream_vars, endpoint_vars>>

\* Lines 33-41: decode_access_token raises: an error message, close(4001), return.
WsRejectToken ==
    /\ ws_pc = "connect"
    /\ ws_token = "invalid"
    /\ ws_sent' = Send("error")
    /\ ws_close' = "4001"
    /\ ws_pc' = "closed"
    /\ UNCHANGED <<ws_token, ws_inbound, ws_received, ws_chunks, ws_queries,
                   core_vars, stream_vars, endpoint_vars>>

\* Lines 52-53, 85-89: the text received is not JSON: json.loads raises
\* JSONDecodeError, an error message is sent and the loop goes on.
WsReceiveInvalidJson ==
    /\ ws_pc = "receive"
    /\ ws_received < MaxMessages
    /\ ws_received' = ws_received + 1
    /\ ws_inbound' = "invalid_json"
    /\ ws_sent' = Send("error")
    /\ UNCHANGED <<ws_pc, ws_token, ws_close, ws_chunks, ws_queries,
                   core_vars, stream_vars, endpoint_vars>>

\* Lines 52-58: a JSON object without 'query', or with an empty one: an error
\* message, and `continue`.
WsReceiveWithoutQuery ==
    /\ ws_pc = "receive"
    /\ ws_received < MaxMessages
    /\ ws_received' = ws_received + 1
    /\ ws_inbound' = "without_query"
    /\ ws_sent' = Send("error")
    /\ UNCHANGED <<ws_pc, ws_token, ws_close, ws_chunks, ws_queries,
                   core_vars, stream_vars, endpoint_vars>>

\* Lines 52-54, 95-101: JSON that is no object (a list, a number, null):
\* data.get raises AttributeError, which only the outer handler catches: an
\* error message and close(1011).
WsReceiveNotAnObject ==
    /\ ws_pc = "receive"
    /\ ws_received < MaxMessages
    /\ ws_received' = ws_received + 1
    /\ ws_inbound' = "not_an_object"
    /\ ws_sent' = Send("error")
    /\ ws_close' = "1011"
    /\ ws_pc' = "closed"
    /\ UNCHANGED <<ws_token, ws_chunks, ws_queries, core_vars, stream_vars, endpoint_vars>>

\* Lines 52-66: a message with a query: the status message.
WsReceiveQuery ==
    /\ ws_pc = "receive"
    /\ ws_received < MaxMessages
    /\ ws_received' = ws_received + 1
    /\ ws_inbound' = "query"
    /\ ws_sent' = Send("status")
    /\ ws_chunks' = 0
    /\ ws_pc' = "stream"
    /\ UNCHANGED <<ws_token, ws_close, ws_queries, core_vars, stream_vars, endpoint_vars>>

\* Lines 52, 91-93: the client has gone: receive_text raises
\* WebSocketDisconnect and the loop is left.
WsDisconnect ==
    /\ ws_pc = "receive"
    /\ ws_close' = "by client"
    /\ ws_pc' = "closed"
    /\ UNCHANGED <<ws_token, ws_inbound, ws_sent, ws_received, ws_chunks, ws_queries,
                   core_vars, stream_vars, endpoint_vars>>

\* Lines 69-73: one chunk of the language model's stream is sent on. (An error
\* of the model arrives as a chunk too: stream_response catches it and yields
\* its text, so that the warning of lines 74-79 is sent for no error of the
\* model.)
WsStreamChunk ==
    /\ ws_pc = "stream"
    /\ ws_chunks < MaxChunks
    /\ ws_chunks' = ws_chunks + 1
    /\ ws_sent' = Send("stream")
    /\ UNCHANGED <<ws_pc, ws_token, ws_inbound, ws_close, ws_received, ws_queries,
                   core_vars, stream_vars, endpoint_vars>>

\* Lines 82-83: process_query returns and its result is sent as the final
\* message.
WsFinal ==
    /\ ws_pc = "stream"
    /\ ws_queries' = ws_queries + 1
    /\ ws_sent' = Send("final")
    /\ ws_pc' = "receive"
    /\ UNCHANGED <<ws_token, ws_inbound, ws_close, ws_received, ws_chunks,
                   core_vars, stream_vars, endpoint_vars>>

\* Lines 82-83, 95-101: process_query raises, or send_json raises TypeError on
\* a result whose rows json.dumps cannot write: the outer handler sends an
\* error message and closes with 1011.
WsRuntimeError ==
    /\ ws_pc = "stream"
    /\ ws_queries' = ws_queries + 1
    /\ ws_sent' = Send("error")
    /\ ws_close' = "1011"
    /\ ws_pc' = "closed"
    /\ UNCHANGED <<ws_token, ws_inbound, ws_received, ws_chunks,
                   core_vars, stream_vars, endpoint_vars>>

InitWs ==
    /\ NoGateCall
    /\ user_id = None
    /\ NewService
    /\ NoSharedCalls
    /\ NoExtractCall
    /\ NoStreamCall
    /\ NoEndpointCall
    /\ ws_pc = "connect"
    /\ ws_token \in Tokens
    /\ ws_inbound = "none"
    /\ ws_sent = <<>>
    /\ ws_close = "open"
    /\ ws_received = 0
    /\ ws_chunks = 0
    /\ ws_queries = 0

NextWs ==
    \/ WsAccept
    \/ WsRejectToken
    \/ WsReceiveInvalidJson
    \/ WsReceiveWithoutQuery
    \/ WsReceiveNotAnObject
    \/ WsReceiveQuery
    \/ WsDisconnect
    \/ WsStreamChunk
    \/ WsFinal
    \/ WsRuntimeError

SpecWs == InitWs /\ [][NextWs]_vars

\* ------------------------------------------------------------------------
\* POST /query for an authenticated user: the choice of the session id
\* (src/src/api/endpoints.py, lines 70-107) and login (src/src/api/auth.py)
\* ------------------------------------------------------------------------

\* Bounds of the model: the uuid4() values drawn, the /query requests made
MaxUuids == 6
MaxEndpointRequests == 4

\* str(uuid.uuid4()): a value never drawn before.
NewUuid == uuids + 1

\* auth.py, lines 115-121: login writes a new session id to the user's row.
Login ==
    /\ uuids < MaxUuids
    /\ uuids' = NewUuid
    /\ last_session_id' = NewUuid
    /\ UNCHANGED <<session_used, endpoint_requests, core_vars, stream_vars, ws_vars>>

\* Lines 73-75: session_id = "new": a new id is drawn; nothing is written.
QueryNewSession ==
    /\ endpoint_requests < MaxEndpointRequests
    /\ uuids < MaxUuids
    /\ endpoint_requests' = endpoint_requests + 1
    /\ uuids' = NewUuid
    /\ session_used' = NewUuid
    /\ UNCHANGED <<last_session_id, core_vars, stream_vars, ws_vars>>

\* Lines 78-88: the user's row holds a session id: it is used.
QueryResume ==
    /\ endpoint_requests < MaxEndpointRequests
    /\ last_session_id # NoSession
    /\ endpoint_requests' = endpoint_requests + 1
    /\ session_used' = last_session_id
    /\ UNCHANGED <<last_session_id, uuids, core_vars, stream_vars, ws_vars>>

\* Lines 78-98: the user's row holds none: a new id is drawn and saved.
QueryFirstSession ==
    /\ endpoint_requests < MaxEndpointRequests
    /\ uuids < MaxUuids
    /\ last_session_id = NoSession
    /\ endpoint_requests' = endpoint_requests + 1
    /\ uuids' = NewUuid
    /\ session_used' = NewUuid
    /\ last_session_id' = NewUuid
    /\ UNCHANGED <<core_vars, stream_vars, ws_vars>>

\* Lines 100-102: reading the user's row raises: a new id is drawn, unsaved.
QueryLookupFails ==
    /\ endpoint_requests < MaxEndpointRequests
    /\ uuids < MaxUuids
    /\ endpoint_requests' = endpoint_requests + 1
    /\ uuids' = NewUuid
    /\ session_used' = NewUuid
    /\ UNCHANGED <<last_session_id, core_vars, stream_vars, ws_vars>>

\* The user's row as signup writes it (auth.py, line 93: a first session id),
\* or a row whose last_session_id is null.
InitEndpoint ==
    /\ NoGateCall
    /\ user_id = "user1"
    /\ NewService
    /\ NoSharedCalls
    /\ NoExtractCall
    /\ NoStreamCall
    /\ NoWsCall
    /\ \/ last_session_id = NoSession /\ uuids = 0
       \/ last_session_id = 1 /\ uuids = 1
    /\ session_used = NoSession
    /\ endpoint_requests = 0

NextEndpoint ==
    \/ Login
    \/ QueryNewSession
    \/ QueryResume
    \/ QueryFirstSession
    \/ QueryLookupFails

SpecEndpoint == InitEndpoint /\ [][NextEndpoint]_vars

\* ------------------------------------------------------------------------
\* What the properties speak of
\* ------------------------------------------------------------------------

Min(S) == CHOOSE x \in S : \A y \in S : x <= y

\* The words of s: its maximal runs of letters, digits and underscores.
WordsOf(s) ==
    LET starts == { a \in DOMAIN s : s[a] \in WordChars /\ (a > 1 => s[a-1] \notin WordChars) }
        end(a) == CHOOSE b \in a..Len(s) :
                      /\ (b < Len(s) => s[b+1] \notin WordChars)
                      /\ \A k \in a..b : s[k] \in WordChars
    IN  { SubSeq(s, a, end(a)) : a \in starts }

KeywordSet == Range(DANGEROUS_KEYWORDS)

\* The denylisted keywords that stand in s as words of their own, in any letter case.
KeywordWords(s) == WordsOf(Upper(s)) \cap KeywordSet

\* A ';' of s with something other than ';' after it.
SemicolonBeforeText(s) ==
    \E i \in DOMAIN s : s[i] = ";" /\ \E j \in (i+1)..Len(s) : s[j] # ";"

\* The text a database reads in s: a '...' literal is kept as it is, and a "--"
\* or "/*" starts a comment only outside a literal; a comment reads as one space.
RECURSIVE DatabaseText(_)
DatabaseText(s) ==
    LET q == Find(s, <<"'">>)
        l == Find(s, <<"-","-">>)
        b == Find(s, <<"/","*">>)
        starts == {q, l, b} \ {0}
        first == Min(starts)
    IN  IF starts = {} THEN s
        ELSE IF first = q
             THEN LET close == Find(From(s, q + 1), <<"'">>)
                  IN  IF close = 0 THEN s
                      ELSE SubSeq(s, 1, q + close) \o DatabaseText(From(s, q + close + 1))
        ELSE IF first = l
             THEN SubSeq(s, 1, l - 1) \o <<" ">> \o DatabaseText(FromNewline(From(s, l)))
        ELSE LET close == Find(From(s, b + 2), <<"*","/">>)
             IN  IF close = 0 THEN SubSeq(s, 1, b - 1) \o <<" ">>
                 ELSE SubSeq(s, 1, b - 1) \o <<" ">> \o DatabaseText(From(s, b + close + 3))

\* Every literal and every block comment of s is closed: the database can read s.
RECURSIVE IsReadable(_)
IsReadable(s) ==
    LET q == Find(s, <<"'">>)
        l == Find(s, <<"-","-">>)
        b == Find(s, <<"/","*">>)
        starts == {q, l, b} \ {0}
        first == Min(starts)
    IN  IF starts = {} THEN TRUE
        ELSE IF first = q
             THEN LET close == Find(From(s, q + 1), <<"'">>)
                  IN  close # 0 /\ IsReadable(From(s, q + close + 1))
        ELSE IF first = l THEN IsReadable(FromNewline(From(s, l)))
        ELSE LET close == Find(From(s, b + 2), <<"*","/">>)
             IN  close # 0 /\ IsReadable(From(s, b + close + 3))

\* The same text with every literal emptied: what stands at the top level.
RECURSIVE TopLevelText(_)
TopLevelText(s) ==
    LET q == Find(s, <<"'">>)
        close == Find(From(s, q + 1), <<"'">>)
    IN  IF q = 0 THEN s
        ELSE IF close = 0 THEN SubSeq(s, 1, q)
        ELSE SubSeq(s, 1, q) \o <<"'">> \o TopLevelText(From(s, q + close + 1))

\* A ';' at the top level of s with statement text after it.
HasChainedStatement(s) ==
    LET top == TopLevelText(DatabaseText(s))
    IN  IsReadable(s) /\ \E i \in DOMAIN top :
            /\ top[i] = ";"
            /\ \E j \in (i+1)..Len(top) : top[j] \notin (Whitespace \cup {";"})

\* validate accepts sql for some way sqlparse can behave on it.
Accepts(sql) ==
    \E parse \in ParseOutcomes(StripComments(sql)) : validate(TABLE_NAME, sql, parse).valid

\* ------------------------------------------------------------------------
\* One SQLValidator shared by concurrent request handlers
\* ------------------------------------------------------------------------

\* Bound of the model: the calls each handler makes on the validator
MaxCallsEach == 1

\* The statements the handlers pass.
SharedStatements ==
    { HeadSelect, HeadOtherTable, HeadDelete,
      HeadSelect \o <<" ","L","I","M","I","T"," ","1","0","0","0","0">> }

\* The policy as a call leaves it, as it would be if validate normalised the
\* table name in place (self.allowed_table = self.allowed_table.upper()).
PolicyAfterCall_TableUppercased(p) == [p EXCEPT !.allowed_table = Upper(@)]

\* The policy as a call leaves it: validate and enforce_limit assign to no
\* attribute of the validator, of its class or of settings.
PolicyAfterCall(p) == p

\* Handler c calls validate(sql): the arguments are bound.
CallValidate(c) ==
    /\ calls[c].pc \in {"idle", "returned"}
    /\ calls[c].made < MaxCallsEach
    /\ \E sql \in SharedStatements : \E parse \in ParseOutcomes(StripComments(sql)) :
           calls' = [calls EXCEPT ![c] =
                        [pc |-> "called", op |-> "validate", sql |-> sql, limit |-> NoLimit,
                         parse |-> parse, ticket |-> tickets + 1, made |-> @.made + 1,
                         verdict |-> NoVerdict, output |-> <<>>]]
    /\ tickets' = tickets + 1
    /\ UNCHANGED <<policy, gate_vars, service_vars, agent_vars, api_vars>>

\* Handler c calls enforce_limit(sql, limit).
CallEnforceLimit(c) ==
    /\ calls[c].pc \in {"idle", "returned"}
    /\ calls[c].made < MaxCallsEach
    /\ \E sql \in SharedStatements : \E limit \in Limits :
           calls' = [calls EXCEPT ![c] =
                        [pc |-> "called", op |-> "enforce_limit", sql |-> sql, limit |-> limit,
                         parse |-> "parsed", ticket |-> tickets + 1, made |-> @.made + 1,
                         verdict |-> NoVerdict, output |-> <<>>]]
    /\ tickets' = tickets + 1
    /\ UNCHANGED <<policy, gate_vars, service_vars, agent_vars, api_vars>>

\* The call of handler c runs and returns: it reads the policy as it is now.
Return(c) ==
    /\ calls[c].pc = "called"
    /\ calls' = [calls EXCEPT ![c] =
                    IF calls[c].op = "validate"
                    THEN [calls[c] EXCEPT !.pc = "returned",
                                          !.verdict = validate(policy.allowed_table,
                                                               calls[c].sql, calls[c].parse)]
                    ELSE [calls[c] EXCEPT !.pc = "returned",
                                          !.output = enforce_limit(calls[c].sql, calls[c].limit)]]
    /\ policy' = PolicyAfterCall(policy)
    /\ UNCHANGED <<tickets, gate_vars, service_vars, agent_vars, api_vars>>

InitShared ==
    /\ NoGateCall
    /\ user_id = None
    /\ NewService
    /\ NoSharedCalls
    /\ NoExtractCall
    /\ NoApiCall

NextShared ==
    \E c \in Callers : CallValidate(c) \/ CallEnforceLimit(c) \/ Return(c)

SpecShared == InitShared /\ [][NextShared]_vars

\* ------------------------------------------------------------------------
\* Properties
\* ------------------------------------------------------------------------

\* C1: in process_query a generated statement is handed to session.execute only
\* after validate accepted it, the text handed over is enforce_limit of that
\* statement, and a call whose statement validate rejected hands over nothing.
C1_OnlyTheGateReachesTheDatabase ==
    /\ \A i \in DOMAIN sent :
           /\ fix.is_valid
           /\ Accepts(gen_sql)
           /\ sent[i] = enforce_limit(gen_sql, NoLimit)
    /\ Len(sent) <= 1
    /\ (pc \in {"idle", "execute", "summarize"} /\ ~Accepts(gen_sql)) => sent = <<>>

\* C1 witness: a statement was executed, and it is not the text as generated.
C1_Witness ==
    /\ pc = "summarize"
    /\ sent # <<>>
    /\ sent[1] # gen_sql

\* C2 as stated: every string that holds a denylisted keyword as a word of its
\* own, in any letter case, is rejected with the ForbiddenKeyword reason.
C2_AsStated ==
    (step = "validated" /\ KeywordWords(candidate) # {})
        => (~verdict.valid /\ verdict.error.kind = "ForbiddenKeyword")

\* C2 as amended: every string whose text, once validate has stripped the
\* comments, holds a denylisted keyword as a word of its own, in any letter
\* case and also inside a string literal, is rejected: with the
\* ForbiddenKeyword reason naming a keyword that stands in it, unless the
\* MultipleStatements check rejected it before.
C2_KeywordOutsideCommentsRejected ==
    step = "validated" =>
        LET clean == StripComments(candidate)
            words == KeywordWords(clean)
        IN  words # {}
                => /\ ~verdict.valid
                   /\ verdict.error.kind \in {"ForbiddenKeyword", "MultipleStatements"}
                   /\ verdict.error.kind = "MultipleStatements" <=> SemicolonBeforeText(clean)
                   /\ verdict.error.kind = "ForbiddenKeyword" => verdict.error.detail \in words

\* C2 witness: a lower-case keyword inside a string literal, rejected as a keyword.
C2_Witness ==
    /\ step = "validated"
    /\ candidate = HeadLiteral \o <<" ","i","n","s","e","r","t">> \o <<"'">>
    /\ verdict = Rejected("ForbiddenKeyword", DANGEROUS_KEYWORDS[1])

\* C3 as stated: every string with a top-level ';' followed by further statement
\* text is rejected with the MultipleStatements reason.
C3_ChainedStatementsRejected ==
    (step = "validated" /\ HasChainedStatement(candidate))
        => (~verdict.valid /\ verdict.error.kind = "MultipleStatements")

\* C4 as stated: when validate accepts a statement that the database can read,
\* the text of it that the database does not read as a comment holds no ';' but trailing ones and no
\* denylisted keyword as a word of its own.
C4_CommentsHideNothing ==
    (step = "validated" /\ verdict.valid /\ IsReadable(candidate))
        => LET db == DatabaseText(candidate)
           IN  /\ ~HasChar(RStripChars(db, Whitespace \cup {";"}), ";")
               /\ KeywordWords(db) = {}

\* The value of the digits s starts with (0 when it starts with none).
RECURSIVE DigitsValue(_, _)
DigitsValue(s, acc) ==
    IF s = <<>> \/ Head(s) \notin DigitSet THEN acc
    ELSE DigitsValue(Tail(s), 10 * acc + (IndexIn(Head(s), Digits) - 1))

\* The LIMIT clauses of s: where the word LIMIT, in any letter case, is followed
\* by whitespace and a number; and the number of the clause at i.
LimitClauses(s) ==
    { i \in DOMAIN s :
        /\ UpperChar(s[i]) = "L" /\ MatchAt(Upper(s), i, LIMIT)
        /\ (i > 1 => s[i-1] \notin WordChars)
        /\ \E j \in (i+6)..Len(s) :
               /\ \A k \in (i+5)..(j-1) : s[k] \in Whitespace
               /\ s[j] \in DigitSet }

LimitValue(s, i) ==
    DigitsValue(LStripChars(From(s, i + 5), Whitespace), 0)

\* C5 as stated: for every statement validate accepts and every requested limit
\* or none, the output of enforce_limit holds exactly one LIMIT clause, and its
\* value is at most MAX_QUERY_LIMIT.
C5_ExactlyOneBoundedLimit ==
    (step = "limited" /\ verdict.valid)
        => /\ Cardinality(LimitClauses(output)) = 1
           /\ \A i \in LimitClauses(output) : LimitValue(output, i) <= MAX_QUERY_LIMIT

\* The checks of validate as the specification lists them, each judged on its own.
CheckOrder ==
    <<"EmptyQuery", "MultipleStatements", "ParseError", "ForbiddenKeyword",
      "NotASelect", "TableNotAllowed">>

\* The check k fails on sql, whose comment-stripped text is clean.
CheckFails(k, sql, clean, parse) ==
    CASE k = 1 -> \A i \in DOMAIN sql : sql[i] \in Whitespace
      [] k = 2 -> SemicolonBeforeText(clean)
      [] k = 3 -> parse = "raises"
      [] k = 4 -> KeywordWords(clean) # {}
      [] k = 5 -> ~StartsWith(Strip(Upper(clean)), SELECT)
      [] k = 6 -> ~Contains(Lower(clean), Lower(TABLE_NAME))

\* C6: validate accepts exactly when no check fails, and otherwise gives the
\* reason of the first failing check in the order EmptyQuery, MultipleStatements,
\* ParseError, ForbiddenKeyword, NotASelect, TableNotAllowed; the keyword named
\* is the first of the list that stands in the statement; a missing LIMIT is no
\* reason.
C6_FirstFailingCheckDecides ==
    step = "validated" =>
        LET clean == StripComments(candidate)
            words == KeywordWords(clean)
            present == { k \in DOMAIN DANGEROUS_KEYWORDS : DANGEROUS_KEYWORDS[k] \in words }
        IN  \E parse \in ParseOutcomes(clean) :
            LET failing == { k \in DOMAIN CheckOrder : CheckFails(k, candidate, clean, parse) }
            IN  IF failing = {} THEN verdict = Accepted
                ELSE /\ ~verdict.valid
                     /\ verdict.error.kind = CheckOrder[Min(failing)]
                     /\ Min(failing) = 4 => verdict.error.detail = DANGEROUS_KEYWORDS[Min(present)]

\* C6 witness: DELETE stands before insert in the text, INSERT before DELETE in
\* the list; the statement is no SELECT either.
C6_Witness ==
    /\ step = "validated"
    /\ candidate = HeadDelete \o <<" ","i","n","s","e","r","t">>
    /\ verdict = Rejected("ForbiddenKeyword", DANGEROUS_KEYWORDS[1])

\* s without one trailing ';'
WithoutOneSemicolon(s) == IF EndsWith(s, <<";">>) THEN SubSeq(s, 1, Len(s) - 1) ELSE s

\* validate came as far as the MultipleStatements check.
ReachedStatementCheck == step = "validated" /\ verdict.error.kind # "EmptyQuery"

\* C7 as stated: the MultipleStatements rejection comes exactly when, comments
\* stripped and a single trailing ';' removed, a ';' remains.
C7_AsStated ==
    ReachedStatementCheck =>
        (verdict.error.kind = "MultipleStatements"
            <=> HasChar(WithoutOneSemicolon(StripComments(candidate)), ";"))

\* C7 as amended: the MultipleStatements rejection comes exactly when, comments
\* stripped and every trailing ';' removed, a ';' remains, that is when a ';' of
\* the stripped text has something other than ';' after it; a statement whose
\* only ';' is its last character is never rejected for this reason.
C7_SemicolonBeforeTextRejected ==
    ReachedStatementCheck =>
        LET clean == StripComments(candidate)
        IN  /\ verdict.error.kind = "MultipleStatements" <=> SemicolonBeforeText(clean)
            /\ (EndsWith(clean, <<";">>) /\ ~HasChar(WithoutOneSemicolon(clean), ";"))
                   => verdict.error.kind # "MultipleStatements"

\* C7 witness: two trailing ';' and the statement is accepted.
C7_Witness ==
    /\ step = "validated"
    /\ candidate = HeadSelect \o <<";", ";">>
    /\ verdict = Accepted

\* C8: every accepted statement begins, once stripped of comments, trimmed and
\* upper-cased, with SELECT; one that does not is rejected with NotASelect
\* unless an earlier check rejected it.
C8_OnlySelectAccepted ==
    (step = "validated" /\ ~StartsWith(Strip(Upper(StripComments(candidate))), SELECT))
        => /\ ~verdict.valid
           /\ verdict.error.kind \in
                  {"EmptyQuery", "MultipleStatements", "ParseError", "ForbiddenKeyword", "NotASelect"}

\* C8 witness: a WITH statement on the allowed table, rejected as no SELECT.
C8_Witness ==
    /\ step = "validated"
    /\ candidate = HeadWith
    /\ verdict = Rejected("NotASelect", <<>>)

\* C9: every accepted statement holds the allowed table name, in any letter
\* case, in its comment-stripped text; one that passes the earlier checks and
\* does not hold it is rejected with TableNotAllowed, naming the allowed table.
C9_OnlyAllowedTableAccepted ==
    (step = "validated" /\ ~Contains(Lower(StripComments(candidate)), Lower(TABLE_NAME)))
        => /\ ~verdict.valid
           /\ verdict.error.kind \notin
                  {"EmptyQuery", "MultipleStatements", "ParseError", "ForbiddenKeyword", "NotASelect"}
                  => verdict = Rejected("TableNotAllowed", TABLE_NAME)

\* C9 witness: a SELECT on another table is rejected, naming the allowed table.
C9_Witness ==
    /\ step = "validated"
    /\ candidate = HeadOtherTable
    /\ verdict = Rejected("TableNotAllowed", TABLE_NAME)

\* C10 as stated: a statement that holds denylisted keywords only inside longer
\* words is not rejected with the ForbiddenKeyword reason.
C10_AsStated ==
    (/\ step = "validated"
     /\ KeywordWords(candidate) = {}
     /\ \E k \in DOMAIN DANGEROUS_KEYWORDS : Contains(Upper(candidate), DANGEROUS_KEYWORDS[k]))
        => verdict.error.kind # "ForbiddenKeyword"

\* C10 as amended: a statement whose text, once validate has stripped the
\* comments, holds no denylisted keyword as a word of its own (keywords stand in
\* it inside longer words at most) is not rejected with the ForbiddenKeyword
\* reason.
C10_KeywordInsideWordIgnored ==
    (step = "validated" /\ KeywordWords(StripComments(candidate)) = {})
        => verdict.error.kind # "ForbiddenKeyword"

\* C10 witness: created_at holds CREATE, and the statement is accepted.
C10_Witness ==
    /\ step = "validated"
    /\ verdict = Accepted
    /\ KeywordWords(StripComments(candidate)) = {}
    /\ \E k \in DOMAIN DANGEROUS_KEYWORDS :
           Contains(Upper(StripComments(candidate)), DANGEROUS_KEYWORDS[k])

\* C11: every statement that is empty or consists only of whitespace is rejected
\* with the EmptyQuery reason.
C11_BlankRejectedAsEmpty ==
    (step = "validated" /\ \A i \in DOMAIN candidate : candidate[i] \in Whitespace)
        => verdict = Rejected("EmptyQuery", <<>>)

\* C11 witness: a statement of whitespace only, not the empty one, was rejected
\* as empty.
C11_Witness ==
    /\ step = "validated"
    /\ candidate # <<>>
    /\ \A i \in DOMAIN candidate : candidate[i] \in Whitespace
    /\ verdict = Rejected("EmptyQuery", <<>>)

\* The places of s where the word LIMIT, in any letter case, is followed by
\* whitespace and a number, signed or not; and the number at such a place.
LimitNumbers(s) ==
    { i \in DOMAIN s :
        /\ UpperChar(s[i]) = "L" /\ MatchAt(Upper(s), i, LIMIT)
        /\ (i > 1 => s[i-1] \notin WordChars)
        /\ i + 5 <= Len(s) /\ s[i+5] \in Whitespace
        /\ LET rest == LStripChars(From(s, i + 5), Whitespace)
           IN  rest # <<>> /\ Head(rest) \in DigitSet \cup {"-"} }

SignedLimitValue(s, i) ==
    LET rest == LStripChars(From(s, i + 5), Whitespace)
    IN  IF Head(rest) = "-" THEN 0 - DigitsValue(Tail(rest), 0) ELSE DigitsValue(rest, 0)

\* min(requested, max_limit), or min(default_limit, max_limit) when none is requested
ClaimedLimit(limit) ==
    IF limit = NoLimit THEN Min({DEFAULT_QUERY_LIMIT, MAX_QUERY_LIMIT})
    ELSE Min({limit[1], MAX_QUERY_LIMIT})

\* C12 as stated: for every requested integer limit or none, each LIMIT value
\* in the output of enforce_limit is min(requested, max_limit), or
\* min(default_limit, max_limit) when none is requested.
C12_WrittenLimitIsTheMinimum ==
    step = "limited" =>
        \A i \in LimitNumbers(output) : SignedLimitValue(output, i) = ClaimedLimit(requested)

\* C12 apart from a requested limit of 0, which line 69 takes for none.
C12_NonZeroLimit ==
    (step = "limited" /\ requested # <<0>>) =>
        \A i \in LimitNumbers(output) : SignedLimitValue(output, i) = ClaimedLimit(requested)

\* C12 witness: a requested limit above the maximum was written as the maximum.
C12_Witness ==
    /\ step = "limited"
    /\ requested = <<5000>>
    /\ \E i \in LimitNumbers(output) : SignedLimitValue(output, i) = MAX_QUERY_LIMIT

\* The statement handed to enforce_limit holds a LIMIT clause above the maximum,
\* and no limit was requested.
HighLimitNoneRequested ==
    /\ step = "limited"
    /\ requested = NoLimit
    /\ \E i \in LimitClauses(candidate) : LimitValue(candidate, i) > MAX_QUERY_LIMIT

\* C13 as stated: with no requested limit, a statement whose LIMIT value exceeds
\* the maximum comes back holding LIMIT <max_limit>.
C13_AsStated ==
    HighLimitNoneRequested
        => \E i \in LimitClauses(output) : LimitValue(output, i) = MAX_QUERY_LIMIT

\* C13 as amended: with no requested limit, a statement whose LIMIT value exceeds
\* the maximum comes back holding LIMIT <min(default_limit, max_limit)>, which
\* is the default, and no other LIMIT value.
C13_HighLimitBecomesDefault ==
    HighLimitNoneRequested
        => /\ LimitClauses(output) # {}
           /\ \A i \in LimitClauses(output) :
                  LimitValue(output, i) = Min({DEFAULT_QUERY_LIMIT, MAX_QUERY_LIMIT})

\* C13 witness: "... LIMIT 10000" came back as "... LIMIT 200".
C13_Witness ==
    /\ step = "limited"
    /\ requested = NoLimit
    /\ candidate = HeadSelect \o <<" ","L","I","M","I","T"," ","1","0","0","0","0">>
    /\ output = HeadSelect \o <<" ","L","I","M","I","T"," ","2","0","0">>

\* The LIMIT clauses of s as enforce_limit looks for them: the letters LIMIT in
\* any case, whitespace, digits. Where they start, and where the one at i ends.
ClauseStarts(s) ==
    { i \in DOMAIN s :
        /\ UpperChar(s[i]) = "L" /\ MatchAt(Upper(s), i, LIMIT)
        /\ \E j \in (i+6)..Len(s) :
               /\ \A k \in (i+5)..(j-1) : s[k] \in Whitespace
               /\ s[j] \in DigitSet }

ClauseEnd(s, i) ==
    CHOOSE e \in (i+6)..Len(s) :
        /\ s[e] \in DigitSet
        /\ (e < Len(s) => s[e+1] \notin DigitSet)
        /\ \E j \in (i+6)..e :
               /\ \A k \in (i+5)..(j-1) : s[k] \in Whitespace
               /\ \A k \in j..e : s[k] \in DigitSet

\* s from position `from` on, with w in the place of each LIMIT clause.
RECURSIVE WithClausesAs(_, _, _)
WithClausesAs(s, from, w) ==
    LET next == { i \in ClauseStarts(s) : i >= from }
    IN  IF next = {} THEN SubSeq(s, from, Len(s))
        ELSE SubSeq(s, from, Min(next) - 1) \o w
                 \o WithClausesAs(s, ClauseEnd(s, Min(next)) + 1, w)

AppendedClause == <<" ">> \o LIMIT \o <<" ">> \o IntToStr(EffectiveLimit(requested))

\* C15, the least it says: when the statement handed to enforce_limit holds no
\* LIMIT clause, the output ends with the appended " LIMIT <effective limit>",
\* followed by a ';' or not.
C15_ClauseAppended ==
    (step = "limited" /\ verdict.valid /\ ClauseStarts(candidate) = {})
        => \/ EndsWith(output, AppendedClause)
           \/ EndsWith(output, AppendedClause \o <<";">>)

\* What the code does when the letters LIMIT stand nowhere in the statement:
\* trailing whitespace and then every trailing ';' is removed, and
\* " LIMIT <effective limit>;" is appended, the ';' also when there was none.
C15_WithoutTheWordLimit ==
    (step = "limited" /\ ~Contains(Upper(candidate), LIMIT))
        => \E n \in 0..Len(candidate) :
               /\ output = SubSeq(candidate, 1, n) \o AppendedClause \o <<";">>
               /\ (n > 0 => candidate[n] # ";")
               /\ \E m \in n..Len(candidate) :
                      /\ \A k \in (n+1)..m : candidate[k] = ";"
                      /\ \A k \in (m+1)..Len(candidate) : candidate[k] \in Whitespace
                      /\ (m > 0 => candidate[m] \notin Whitespace)

\* C15 witness: the statement gives the table the alias LIMIT_x and holds no
\* LIMIT clause; it came back as it was.
C15_Witness ==
    /\ step = "limited"
    /\ candidate = HeadSelect \o <<" ","L","I","M","I","T","_","x">>
    /\ output = candidate

\* The LIMIT values s carries: the numbers of its LIMIT clauses, in their order.
LimitValueSeq(s) ==
    LET P == LimitNumbers(s)
    IN  [k \in 1..Cardinality(P) |->
            SignedLimitValue(s, CHOOSE i \in P : Cardinality({j \in P : j <= i}) = k)]

\* C16: enforce_limit applied to its own output, with the same requested limit,
\* returns a statement that carries the same LIMIT values as that output.
C16_SecondCallKeepsLimit ==
    [][(step = "limited" /\ step' = "relimited")
          => LimitValueSeq(output') = LimitValueSeq(output)]_vars

\* C16 witness: "... LIMIT 10000" with a requested 5 went through enforce_limit
\* twice and carries LIMIT 5.
C16_Witness ==
    /\ step = "relimited"
    /\ requested = <<5>>
    /\ candidate = HeadSelect \o <<" ","L","I","M","I","T"," ","1","0","0","0","0">>
    /\ LimitValueSeq(output) = <<5>>

C18_TotalAndTagged ==
    step = "validated" =>
        \/ verdict = [valid |-> TRUE, error |-> [kind |-> None, detail |-> <<>>]]
        \/ /\ verdict.valid = FALSE
           /\ verdict.error.kind \in Range(CheckOrder)

\* C18 witness: sqlparse raised on a statement that is a comment only, and the
\* exception came back as a rejection.
C18_Witness ==
    /\ step = "validated"
    /\ candidate = <<"-","-">>
    /\ verdict = Rejected("ParseError", IndexErrorText)

TrailingSemicolons(s) ==
    LET n == Len(s)
        last == { k \in 0..n : \A j \in (n - k + 1)..n : s[j] = ";" }
    IN  CHOOSE k \in last : \A j \in last : j <= k

\* C20: for every raw generator text, what the extractor returns ends with
\* exactly one ';'.
C20_ExactlyOneSemicolon ==
    agent_pc = "extracted" => TrailingSemicolons(extracted) = 1

\* What holds of the count: there is at least one ';' at the end, and more than
\* one only when the text without its code fences has two in a row.
C20_AtLeastOneSemicolon ==
    agent_pc = "extracted" =>
        /\ TrailingSemicolons(extracted) >= 1
        /\ TrailingSemicolons(extracted) >= 2 =>
               Contains(RemoveWithNewline(RemoveWithNewline(raw, FENCE_SQL), FENCE),
                        <<";", ";">>)

\* C20 witness: the statement was followed by two ';' and both were kept.
C20_Witness ==
    /\ agent_pc = "extracted"
    /\ raw = HeadSelect \o <<";", ";">>
    /\ extracted = HeadSelect \o <<";", ";">>

\* The raw text once its code fences and its leading label are removed
\* (lines 71-75), which is the text the extractor splits into lines.
CleanedText(r) == RemovePrefix(RemoveWithNewline(RemoveWithNewline(r, FENCE_SQL), FENCE))

\* The surviving lines of a text: its lines, trimmed, that are not blank and
\* begin neither with '#' nor with '--'.
SurvivingLines(text) ==
    LET ls == SplitLines(text)
        trimmed == [i \in DOMAIN ls |-> Strip(ls[i])]
        Survives(l) == /\ l # <<>>
                       /\ l[1] # "#"
                       /\ ~(Len(l) >= 2 /\ l[1] = "-" /\ l[2] = "-")
    IN  SelectSeq(trimmed, Survives)

\* The surviving lines joined as the claim says: up to and including the first
\* that ends in ';', or all of them followed by ';' when none does.
JoinedUpToSemicolon(surv) ==
    LET ending == { k \in DOMAIN surv : surv[k][Len(surv[k])] = ";" }
    IN  IF ending = {} THEN JoinSpace(surv) \o <<";">>
        ELSE JoinSpace(SubSeq(surv, 1, Min(ending)))

\* C21: what the extractor returns is the single-space join of the surviving
\* lines up to and including the first that ends in ';' (so nothing of a later
\* line), and of all of them followed by ';' when none ends in ';'.
C21_JoinOfSurvivingLines ==
    agent_pc = "extracted" =>
        extracted = JoinedUpToSemicolon(SurvivingLines(CleanedText(raw)))

\* C21 witness: the first line ends in ';' and a later line holds text, which
\* is not in the output.
C21_Witness ==
    /\ agent_pc = "extracted"
    /\ raw = HeadSelect \o <<";", "\n", "x">>
    /\ extracted = HeadSelect \o <<";">>

\* s starts with one of the labels, in any letter case.
StartsWithLabel(s) ==
    \E k \in DOMAIN PREFIXES :
        /\ Len(s) >= Len(PREFIXES[k])
        /\ \A j \in DOMAIN PREFIXES[k] : UpperChar(s[j]) = UpperChar(PREFIXES[k][j])

\* s holds three backquotes in a row.
HoldsFence(s) ==
    \E i \in 1..(Len(s) - 2) : s[i] = BACKQUOTE /\ s[i+1] = BACKQUOTE /\ s[i+2] = BACKQUOTE

\* C22: what the extractor returns holds no code-fence delimiter and does not
\* start with a label ("SQL Query:", "Query:", "Answer:" in any letter case),
\* also when the label stood behind an opening fence or leading whitespace.
C22_NoFenceNoLeadingLabel ==
    agent_pc = "extracted" => ~HoldsFence(extracted) /\ ~StartsWithLabel(extracted)

\* What holds of the fences: no code-fence delimiter is left.
C22_NoFence ==
    agent_pc = "extracted" => ~HoldsFence(extracted)

\* C22 witness: the label stood behind a space and is still there.
C22_Witness ==
    /\ agent_pc = "extracted"
    /\ raw = RawSpaceLabelled
    /\ extracted = <<"a","n","s","w","e","r",":"," ">> \o HeadSelect \o <<";">>

\* The fixed maximum length the claim speaks of. The code names none, so the
\* model takes a length that some of its generated statements exceed.
MaxCandidateLength == 30

\* C23: a candidate statement longer than the fixed maximum is rejected with
\* TooLong before validate runs its checks on it.
C23_OverLongRejected ==
    (fix # NoFix /\ Len(gen_sql) > MaxCandidateLength) =>
        (~fix.is_valid /\ fix.error.kind = "TooLong")

\* C23 witness: a statement longer than the maximum went through validate, was
\* accepted and was sent to the database.
C23_Witness ==
    /\ gen_sql = HeadSelect \o <<";">>
    /\ Len(gen_sql) > MaxCandidateLength
    /\ fix # NoFix
    /\ fix.is_valid
    /\ sent = <<fix.fixed_sql>>

\* The step ends a process_query call that had reached validation.
EndsValidatedCall == pc \in {"validate", "execute", "summarize"} /\ pc' = "idle"

\* The statuses that match the outcome of the call the step ends.
MatchingStatuses ==
    IF pc = "validate" THEN <<"invalid", "failed">>
    ELSE IF result'.success THEN <<"valid", "success">>
    ELSE <<"error", "failed">>

\* C24: a process_query call that reached validation writes exactly one
\* query_logs row, when it ends, with the statuses of its outcome; a 'success'
\* row is of a statement that was executed; no other step of it writes a row.
C24_OneMatchingLogRow ==
    [][ /\ EndsValidatedCall =>
            /\ Len(query_logs') = Len(query_logs) + 1
            /\ SubSeq(query_logs', 1, Len(query_logs)) = query_logs
            /\ LET row == query_logs'[Len(query_logs')]
               IN  /\ <<row.validation_status, row.execution_status>> = MatchingStatuses
                   /\ row.execution_status = "success" => sent' = <<row.generated_sql>>
        /\ (pc \in {"idle", "validate", "execute", "summarize"} /\ ~EndsValidatedCall)
               => query_logs' = query_logs
      ]_vars

\* What holds: such a call writes at most one row, and a row it writes has the
\* statuses of its outcome.
C24_AtMostOneMatchingLogRow ==
    [][ /\ EndsValidatedCall =>
            \/ query_logs' = query_logs
            \/ /\ Len(query_logs') = Len(query_logs) + 1
               /\ SubSeq(query_logs', 1, Len(query_logs)) = query_logs
               /\ LET row == query_logs'[Len(query_logs')]
                  IN  /\ <<row.validation_status, row.execution_status>> = MatchingStatuses
                      /\ row.execution_status = "success" => sent' = <<row.generated_sql>>
        /\ (pc \in {"idle", "validate", "execute", "summarize"} /\ ~EndsValidatedCall)
               => query_logs' = query_logs
      ]_vars

\* C24 witness: a call whose statement was accepted and sent to the database
\* has ended with no row in query_logs.
C24_Witness ==
    /\ pc = "idle"
    /\ requests = 1
    /\ fix.is_valid
    /\ sent # <<>>
    /\ result = Raised
    /\ query_logs = <<>>

\* C25: every request appends the user's message before SQL generation; the
\* assistant's message is appended only once the statement was validated,
\* executed and summarized, so a rejected or failed request adds no assistant
\* message; and an assistant message stands right after a user message.
C25_MessagesFollowTheOutcome ==
    [][ /\ (pc = "idle" /\ pc' # "idle") => chat_history' = Append(chat_history, "user")
        /\ (pc # "idle" /\ pc' # "idle") => chat_history' = chat_history
        /\ (pc # "idle" /\ pc' = "idle") =>
               IF result'.success
               THEN pc = "summarize" /\ chat_history' = Append(chat_history, "assistant")
               ELSE chat_history' = chat_history
        /\ \A i \in DOMAIN chat_history' :
               chat_history'[i] = "assistant" => (i > 1 /\ chat_history'[i - 1] = "user")
      ]_vars

\* What holds: the user's message comes first, the assistant's message is saved
\* only by a call that had its statement executed, right after a user message,
\* and every call that returns success has saved it.
C25_AssistantOnlyAfterExecution ==
    [][ /\ (pc = "idle" /\ pc' # "idle") => chat_history' = Append(chat_history, "user")
        /\ (pc # "idle" /\ pc' # "idle") => chat_history' = chat_history
        /\ (pc # "idle" /\ pc' = "idle") =>
               \/ chat_history' = chat_history /\ ~result'.success
               \/ /\ chat_history' = Append(chat_history, "assistant")
                  /\ pc = "summarize" /\ sent = <<fix.fixed_sql>>
        /\ \A i \in DOMAIN chat_history' :
               chat_history'[i] = "assistant" => (i > 1 /\ chat_history'[i - 1] = "user")
      ]_vars

\* C25 witness: a request has ended without success and its assistant message
\* is in chat_history.
C25_Witness ==
    /\ pc = "idle"
    /\ requests = 1
    /\ ~result.success
    /\ chat_history = <<"user", "assistant">>

\* The kinds of the events sent so far, in order.
EventTypes == [i \in DOMAIN events |-> events[i].event]

\* The places of the events of one kind.
Places(type) == { i \in DOMAIN events : events[i].event = type }

\* The stream begins with start and status, holds what follows them in the
\* order sql, columns, rows..., summary, complete, and goes on with nothing
\* after complete.
StartsInOrder ==
    LET t == EventTypes
        n == Len(t)
    IN  /\ n >= 1 => t[1] = "start"
        /\ n >= 2 => t[2] = "status"
        /\ \A i \in 3..n : t[i] \in {"error", "sql", "columns", "rows", "summary", "complete"}
        /\ Places("sql") \subseteq {3}
        /\ Places("columns") \subseteq {4}
        /\ Places("columns") # {} => Places("sql") # {}
        /\ \A i \in Places("rows") : i >= 5 /\ t[i - 1] \in {"columns", "rows"}
        /\ \A i \in Places("summary") : i >= 5 /\ t[i - 1] \in {"columns", "rows"}
        /\ \A i \in Places("complete") : i = n /\ t[i - 1] = "summary"

\* C26: the events follow the order start, status, and then either one error
\* event that ends the stream, or sql, columns, rows..., summary, complete;
\* complete never follows error; and a result with success = false has no sql
\* and no rows event.
C26_FixedEventOrder ==
    /\ StartsInOrder
    /\ \A i \in Places("error") : i = 3 /\ Len(events) = 3
    /\ stream_pc = "done" => EventTypes[Len(events)] \in {"error", "complete"}
    /\ stream_result.outcome \in {"failure", "raised"} => Places("sql") \cup Places("rows") = {}

\* What holds: the same order, where the error event may also come later, after
\* sql and columns and some rows; it is then still the last event.
C26_ErrorEndsTheStream ==
    /\ StartsInOrder
    /\ \A i \in Places("error") : i = Len(events) /\ stream_pc = "done"
    /\ \A i \in Places("error") : i > 3 => EventTypes[i - 1] \in {"columns", "rows"}
    /\ stream_pc = "done" => EventTypes[Len(events)] \in {"error", "complete"}
    /\ stream_result.outcome \in {"failure", "raised"} => Places("sql") \cup Places("rows") = {}

\* C26 witness: the error event was sent after sql, columns and a batch of rows.
C26_Witness ==
    /\ stream_pc = "done"
    /\ EventTypes = <<"start", "status", "sql", "columns", "rows", "error">>

\* The rows of the rows events, one batch after the other.
RECURSIVE RowsSent(_)
RowsSent(evs) ==
    IF evs = <<>> THEN <<>>
    ELSE (IF Head(evs).event = "rows" THEN Head(evs).rows ELSE <<>>) \o RowsSent(Tail(evs))

\* Every rows event carries 1 to batch_size rows, and only the last fewer than
\* batch_size.
BatchSizesRight ==
    \A i \in Places("rows") :
        /\ Len(events[i].rows) \in 1..batch_size
        /\ (\E j \in Places("rows") : j > i) => Len(events[i].rows) = batch_size

\* C27: the rows events of a stream that has ended partition the rows of a
\* successful result: batches of 1 to 10 rows, only the last smaller than 10,
\* which one after the other are exactly result['rows']; an empty result has
\* no rows event.
C27_BatchesPartitionTheRows ==
    (stream_pc = "done" /\ stream_result.outcome = "success") =>
        /\ BatchSizesRight
        /\ RowsSent(events) = stream_result.rows
        /\ stream_result.rows = <<>> => Places("rows") = {}

\* What holds: the batches sent so far are the first rows of the result, in
\* order, and they are all of them once the summary event is sent.
C27_BatchesAreTheFirstRows ==
    /\ BatchSizesRight
    /\ Len(RowsSent(events)) <= Len(stream_result.rows)
    /\ RowsSent(events) = SubSeq(stream_result.rows, 1, Len(RowsSent(events)))
    /\ Places("summary") # {} => RowsSent(events) = stream_result.rows

\* C27 witness: of the 21 rows of a result the first ten were sent, then the
\* stream ended on the twelfth row.
C27_Witness ==
    /\ stream_pc = "done"
    /\ stream_result = [outcome |-> "success", rows |-> ResultRows(21, 12)]
    /\ Len(RowsSent(events)) = 10

\* A connection with an invalid token gets one error message and is closed
\* with 4001, and no query of it is processed.
InvalidTokenClosed ==
    ws_token = "invalid" =>
        /\ ws_queries = 0 /\ ws_received = 0
        /\ ws_pc = "closed" => (ws_sent = <<"error">> /\ ws_close = "4001")
        /\ ws_pc \in {"connect", "closed"}

\* The last message received was no JSON, or had no 'query': an error message
\* answered it and the server has not closed the connection.
BadMessageKeepsOpen ==
    ws_inbound \in {"invalid_json", "without_query"} =>
        /\ ws_sent[Len(ws_sent)] = "error"
        /\ ws_close \in {"open", "by client"}

\* The messages of the accepted queries: after a status message come stream
\* messages (or one warning) and then `last`; the query still in hand is the
\* only one without its last message.
QueryMessagesEndWith(last) ==
    \A i \in DOMAIN ws_sent :
        /\ ws_sent[i] \in {"status", "stream", "warning"} =>
               IF i = Len(ws_sent) THEN ws_pc = "stream"
               ELSE ws_sent[i + 1] \in (IF ws_sent[i] = "warning" THEN {} ELSE {"stream"})
                                            \cup (IF ws_sent[i] = "status" THEN {"warning"} ELSE {})
                                            \cup last
        /\ ws_sent[i] \in {"stream", "warning", "final"} =>
               (i > 1 /\ ws_sent[i - 1] \in {"status", "stream", "warning"})

\* C28: an invalid token gets one error message and close code 4001 before
\* any query is processed; invalid JSON or a missing 'query' gets an error
\* message and the connection stays open; and every accepted query gets
\* status, then stream messages (or one warning), then exactly one final.
C28_WebSocketProtocol ==
    /\ InvalidTokenClosed
    /\ BadMessageKeepsOpen
    /\ QueryMessagesEndWith({"final"})

\* What holds: the same, where an accepted query may get, in place of its
\* final message, an error message with which the server closes the
\* connection (code 1011).
C28_FinalOrClosingError ==
    /\ InvalidTokenClosed
    /\ BadMessageKeepsOpen
    /\ QueryMessagesEndWith({"final", "error"})
    /\ \A i \in DOMAIN ws_sent :
           (ws_sent[i] = "error" /\ i > 1 /\ ws_sent[i - 1] \in {"status", "stream"})
               => (i = Len(ws_sent) /\ ws_close = "1011")

\* C28 witness: an accepted query got its status and a stream message, then an
\* error message and the close, and no final message.
C28_Witness ==
    /\ ws_token = "valid"
    /\ ws_sent = <<"status", "stream", "error">>
    /\ ws_close = "1011"
    /\ ws_queries = 1

\* C29: the session id a /query request of the user works with is, once the
\* request is made, the user's last_session_id, also when the request asked
\* for a new session.
C29_SessionUsedIsSaved ==
    [][endpoint_requests' # endpoint_requests => last_session_id' = session_used']_vars

\* What holds: a request that did not ask for a new session, and could read the
\* user's row, works with the saved id and leaves it saved; no request writes
\* an id other than the one it works with.
C29_ResumedSessionIsSaved ==
    [][endpoint_requests' # endpoint_requests =>
          /\ last_session_id' \in {last_session_id, session_used'}
          /\ session_used' \in 1..uuids => last_session_id' = session_used'
      ]_vars

\* C29 witness: the user signed up with session 1, asked for a new session and
\* got session 2, and last_session_id is still 1.
C29_Witness ==
    /\ endpoint_requests = 1
    /\ session_used = 2
    /\ last_session_id = 1

\* C30: a service built for a guest (user_id = None) reads None for the
\* session summary and the user memory and writes neither table, whatever the
\* requests made on it.
C30_GuestLeavesMemoryAlone ==
    user_id = None =>
        /\ session_summaries = 0
        /\ user_memory = 0
        /\ memory_read = <<None, None>>

\* C30 witness: a guest's first request was executed and answered, and the
\* second has read its context.
C30_Witness ==
    /\ user_id = None
    /\ requests = 2
    /\ pc = "generate"
    /\ chat_history = <<"user", "assistant", "user">>
    /\ query_logs[1].execution_status = "success"
    /\ memory_read = <<None, None>>
    /\ user_memory = 0


====
